---- MODULE Spec2Model ----
(***************************************************************************)
(* CodeMapFree: the diagram state engine of the webview script and the    *)
(* host commands that feed it (src/unnamed/part_001).                      *)
(*                                                                         *)
(* Strings that serve as block ids and display names are modelled by      *)
(* integers: n >= 0 is the decimal numeral String(n); negative values are *)
(* the other texts listed below.  Page names and colours are TLA+ strings.*)
(***************************************************************************)
EXTENDS Integers, Sequences, FiniteSets, TLC

\* ---------------------------------------------------------------- bounds
MaxBlocks   == 3      \* add/paste stop at this many blocks
MaxArrows   == 2      \* arrow creation stops at this many arrows
MaxHistory  == 3      \* recorded mutations stop at this many snapshots
MaxSaves    == 1      \* 'save' messages in flight to the host
MaxFrames   == 2      \* auto-size animation-frame callbacks pending

\* ------------------------------------------------------- program constants
MIN_W       == 300
MIN_H       == 200
DEFAULT_W   == 400
DEFAULT_H   == 300
TEMP_OFFSET == 1000
DEFAULT_PAGE == "CodeMapFree"

\* ------------------------------------------------------------ text values
KeyX   == -1          \* the text "x": not purely numeric
Key01  == -2          \* the text "01": purely numeric, parseInt gives 1
Absent == -9          \* a missing property or the empty text

\* faulty variant: every id passes the test
numericOnlyAny(id) == TRUE

numericOnly(id) == id >= 0 \/ id = Key01
parseInt(id)    == IF id = Key01 THEN 1 ELSE id
String(n)       == n

Undefined == [undef |-> TRUE]     \* the value of codeMap[k] after `codeMap[k] = undefined`
NoAnchor  == [block |-> Absent, x |-> 0, y |-> 0]
NoEdit    == [index |-> -1, endpoint |-> "none"]
NoUpdate  == [newBlockName |-> Absent]

Max(a, b) == IF a >= b THEN a ELSE b
SetMax(S) == CHOOSE m \in S : \A k \in S : k <= m
SetMin(S) == CHOOSE m \in S : \A k \in S : m <= k

\* f with key k removed / set
Without(f, k) == [j \in (DOMAIN f) \ {k} |-> f[j]]
With(f, k, v) == [j \in (DOMAIN f) \cup {k} |-> IF j = k THEN v ELSE f[j]]

RemoveAt(s, i) == [j \in 1..(Len(s) - 1) |-> IF j < i THEN s[j] ELSE s[j + 1]]

VARIABLES
    phase,                \* "init" before the initialisation lines ran, then "ready"
    codeMapData,          \* [page_name, codeMap]
    arrows,               \* the arrow list
    codeBlocks,           \* the rendered view: id -> element rectangle, scroll, content
    canvasScroll,         \* scrollLeft / scrollTop of the canvas container
    resizeStart,          \* the resize gesture in progress (isResizing, target, dir, start)
    history, historyIndex, isApplyingHistory,
    discarded,            \* history variable: the redo entries the last recordSnapshot dropped
    arrowMode, arrowStart, currentArrowColor, currentArrowAlpha,
    selectedArrowIndex, editingArrowEndpoint, selectedBlockName,
    isDragging, dragTarget,
    pendingAutoSizeBlock, rafQueue,
    fetching,             \* ids with a getCode response outstanding
    asked,                \* id -> the paths whose text was requested under the id
    shown,                \* id -> the path whose text the block shows, "" before
    saveQueue,            \* 'save' messages posted and not yet handled by the host
    disk,                 \* CodeMapFree.json
    updateMsg,            \* the 'update' message of addToMap, until delivered
    arrowsRedrawScheduled,
    redrawPending,        \* animation-frame callbacks of scheduleUpdateArrows not yet run
    lastOp                \* the handler that ran last

vars == <<phase, codeMapData, arrows, codeBlocks, history, historyIndex, discarded,
          isApplyingHistory, arrowMode, arrowStart, currentArrowColor,
          currentArrowAlpha, selectedArrowIndex, editingArrowEndpoint,
          selectedBlockName, isDragging, dragTarget, pendingAutoSizeBlock,
          rafQueue, fetching, saveQueue, disk, updateMsg, lastOp,
          canvasScroll, resizeStart, arrowsRedrawScheduled, redrawPending,
          asked, shown>>

\* --------------------------------------------------------------- documents
Block(name, path, x, y, w, h) ==
    [name |-> name, path |-> path, start_line |-> 10, end_line |-> 20,
     x |-> x, y |-> y, w |-> w, h |-> h]

Anchor(b, x, y) == [block |-> b, x |-> x, y |-> y]
Arrow(f, t, c, a) == [from |-> f, to |-> t, color |-> c, alpha |-> a]

Doc(pn, cm, ar) == [page_name |-> pn, codeMap |-> cm, arrows |-> ar]

EmptyMap == [k \in {} |-> Undefined]

\* deepClone = JSON.parse(JSON.stringify(obj)): properties whose value is
\* undefined are dropped, everything else is copied.
deepCloneMap(cm) == [k \in {j \in DOMAIN cm : cm[j] # Undefined} |-> cm[k]]

snapshotState == Doc(codeMapData.page_name, deepCloneMap(codeMapData.codeMap), arrows)

\* ------------------------------------------------------------ loadCodeBlocks
\* Object.entries visits the canonical numeric keys in ascending order and the
\* other keys after them.  Reading `.name` of an undefined entry throws, which
\* ends loadCodeBlocks and the handler that called it.
UndefKeys(cm) == {k \in DOMAIN cm : cm[k] = Undefined}
Throws(cm)    == UndefKeys(cm) # {}
Created(cm)   ==
    IF Throws(cm)
    THEN {k \in DOMAIN cm : k >= 0 /\ k < SetMin(UndefKeys(cm))}
    ELSE DOMAIN cm

\* `if (!blockData.name) codeMap[name] = { name: name, ...blockData }`
Normalised(cm) ==
    [k \in DOMAIN cm |->
        IF k \in Created(cm) /\ cm[k].name = Absent
        THEN [cm[k] EXCEPT !.name = k] ELSE cm[k]]

\* createCodeBlock: the element takes the stored rectangle; the style sheet
\* gives .code-block min-width 300px and min-height 200px. The content pane
\* of a new element is not scrolled and shows the loading line.
Rect(b) == [x |-> b.x, y |-> b.y, w |-> Max(b.w, MIN_W), h |-> Max(b.h, MIN_H),
            scrollLeft |-> 0, scrollTop |-> 0, content |-> "loading"]
ViewOf(cm) == [k \in Created(cm) |-> Rect(cm[k])]

\* what a getCode request names: path, startLine, endLine
Excerpt(blk) ==
    [path |-> blk.path, start_line |-> blk.start_line, end_line |-> blk.end_line]

NoExcerpt == [path |-> "", start_line |-> 0, end_line |-> 0]

\* the elements of the previous view are removed from the page
Detach(q) == [i \in 1..Len(q) |-> [q[i] EXCEPT !.live = FALSE]]

\* ------------------------------------------------------------------ saveData
\* every rendered block's rectangle is read back into the document
SyncGeometry(cm, view) ==
    [k \in DOMAIN cm |->
        IF k \in DOMAIN view
        THEN [cm[k] EXCEPT !.x = view[k].x, !.y = view[k].y,
                           !.w = view[k].w, !.h = view[k].h]
        ELSE cm[k]]

\* the 'save' message carries the document as JSON
SaveMessage(pn, cm, ar) == Doc(pn, deepCloneMap(cm), ar)

\* ------------------------------------------------------------ recordSnapshot
\* faulty variant: the entries after the cursor are kept
TruncatedKeepsRedo == history

Truncated == IF historyIndex < Len(history) - 1
             THEN SubSeq(history, 1, historyIndex + 1) ELSE history

recordSnapshot(snap) ==
    /\ history' = Append(Truncated, snap)
    /\ historyIndex' = Len(Truncated)
    /\ discarded' = Len(history) - Len(Truncated)

canUndo == historyIndex > 0
canRedo == historyIndex >= 0 /\ historyIndex < Len(history) - 1

\* room for one more snapshot / one more save message
CanRecord == historyIndex + 2 <= MaxHistory
CanSave   == Len(saveQueue) < MaxSaves

\* saveData() followed by recordSnapshot(), as recordAndSave does outside
\* undo/redo, on a document whose view is `view`
recordAndSave(pn, cm, ar, view) ==
    LET cm2 == SyncGeometry(cm, view) IN
    /\ codeMapData' = [page_name |-> pn, codeMap |-> cm2]
    /\ arrows' = ar
    /\ saveQueue' = Append(saveQueue, SaveMessage(pn, cm2, ar))
    /\ recordSnapshot(Doc(pn, deepCloneMap(cm2), ar))

\* loadCodeBlocks() on the map cm with block selection sel, then `Then`; when
\* loadCodeBlocks throws the handler stops with the mutation in memory only.
loadCodeBlocks(cm) ==
    /\ codeBlocks' = ViewOf(cm)
    /\ fetching' = fetching \cup Created(cm)
    /\ asked' = [k \in (DOMAIN asked) \cup Created(cm) |->
                    (IF k \in DOMAIN asked THEN asked[k] ELSE {}) \cup
                    (IF k \in Created(cm) THEN {Excerpt(cm[k])} ELSE {})]
    /\ shown' = [k \in Created(cm) |-> NoExcerpt]
    /\ rafQueue' = Detach(rafQueue)
    /\ dragTarget' = [dragTarget EXCEPT !.live = FALSE]
    /\ resizeStart' = [resizeStart EXCEPT !.live = FALSE]

SelectionAfterLoad(cm, sel) ==
    IF sel # Absent /\ sel \notin Created(cm) THEN Absent ELSE sel

\* mutation, loadCodeBlocks(), recordAndSave()
ReloadAndCommit(pn, cm, ar, sel) ==
    /\ loadCodeBlocks(cm)
    /\ IF Throws(cm)
       THEN /\ codeMapData' = [page_name |-> pn, codeMap |-> Normalised(cm)]
            /\ arrows' = ar
            /\ selectedBlockName' = sel
            /\ UNCHANGED <<history, historyIndex, discarded, saveQueue>>
       ELSE /\ selectedBlockName' = SelectionAfterLoad(cm, sel)
            /\ recordAndSave(pn, Normalised(cm), ar, ViewOf(cm))

\* ------------------------------------------------------------ initial files
NoAlpha == -1         \* an arrow stored without alpha
NoColor == ""         \* an arrow stored without color
BLUE    == "#007acc"
RED     == "#ff6b6b"

DocEmpty == Doc(DEFAULT_PAGE, EmptyMap, <<>>)

DocPair ==
    Doc(DEFAULT_PAGE,
        (1 :> Block(1, "a.py", 50, 50, DEFAULT_W, DEFAULT_H)) @@
        (2 :> Block(2, "b.py", 100, 100, DEFAULT_W, DEFAULT_H)),
        << Arrow(Anchor(1, 5, 10), Anchor(2, 3, 4), BLUE, 45) >>)

\* a file whose ids span the distance of the staging id of moveBlockToBottom
DocFar ==
    Doc(DEFAULT_PAGE,
        (1 :> Block(1, "a.py", 50, 50, DEFAULT_W, DEFAULT_H)) @@
        (2 :> Block(2, "b.py", 100, 100, DEFAULT_W, DEFAULT_H)) @@
        (1 + TEMP_OFFSET :> Block(1 + TEMP_OFFSET, "a.py", 150, 150, DEFAULT_W, DEFAULT_H)),
        << Arrow(Anchor(1 + TEMP_OFFSET, 5, 10), Anchor(1, 3, 4), BLUE, 45),
           Arrow(Anchor(1, 5, 10), Anchor(2, 3, 4), RED, 100) >>)

\* a file written by an earlier version: the key is the title, no name
\* property, an arrow without color and alpha
DocLegacy ==
    Doc("P",
        (KeyX :> Block(Absent, "a.py", 50, 50, DEFAULT_W, DEFAULT_H)) @@
        (3 :> Block(Absent, "b.py", 100, 100, DEFAULT_W, DEFAULT_H)),
        << Arrow(Anchor(KeyX, 5, 10), Anchor(3, 3, 4), NoColor, NoAlpha) >>)

\* a file whose arrow was stored without color and alpha
DocPlain ==
    Doc(DEFAULT_PAGE,
        (1 :> Block(1, "a.py", 50, 50, DEFAULT_W, DEFAULT_H)) @@
        (2 :> Block(2, "b.py", 100, 100, DEFAULT_W, DEFAULT_H)),
        << Arrow(Anchor(1, 5, 10), Anchor(2, 3, 4), NoColor, NoAlpha) >>)

\* a file whose numeric ids have gaps
DocGaps ==
    Doc(DEFAULT_PAGE,
        (1 :> Block(1, "a.py", 50, 50, DEFAULT_W, DEFAULT_H)) @@
        (3 :> Block(KeyX, "b.py", 100, 100, DEFAULT_W, DEFAULT_H)) @@
        (4 :> Block(4, "c.py", 150, 150, DEFAULT_W, DEFAULT_H)) @@
        (7 :> Block(7, "d.py", 200, 200, DEFAULT_W, DEFAULT_H)),
        << Arrow(Anchor(3, 5, 10), Anchor(4, 3, 4), BLUE, 45),
           Arrow(Anchor(7, 5, 10), Anchor(1, 3, 4), RED, 100) >>)

\* the file after codemapfree.addToMap has run twice on an empty workspace
DocTwo ==
    Doc(DEFAULT_PAGE,
        (1 :> Block(1, "a.py", 50, 50, DEFAULT_W, DEFAULT_H)) @@
        (2 :> Block(2, "a.py", 100, 100, DEFAULT_W, DEFAULT_H)),
        <<>>)

\* a file with a block under a title and two under numerals, and arrows between them
DocMixed ==
    Doc(DEFAULT_PAGE,
        (KeyX :> Block(KeyX, "a.py", 50, 50, DEFAULT_W, DEFAULT_H)) @@
        (1 :> Block(1, "b.py", 100, 100, DEFAULT_W, DEFAULT_H)) @@
        (2 :> Block(2, "c.py", 150, 150, DEFAULT_W, DEFAULT_H)),
        << Arrow(Anchor(KeyX, 5, 10), Anchor(1, 3, 4), BLUE, 45),
           Arrow(Anchor(2, 5, 10), Anchor(KeyX, 3, 4), RED, 100) >>)

InitDocs == {DocEmpty, DocPair, DocFar, DocLegacy}

NoDrag == [id |-> Absent, live |-> FALSE]
\* isResizing = false, resizeTarget = null, resizeDir = null, resizeStart = null
NoResize == [id |-> Absent, live |-> FALSE, dir |-> "",
             left |-> 0, top |-> 0, width |-> 0, height |-> 0]

InitWith(docs) ==
    /\ phase = "init"
    /\ \E d \in docs :
          /\ codeMapData = [page_name |-> d.page_name, codeMap |-> d.codeMap]
          /\ arrows = d.arrows
          /\ disk = d
    /\ codeBlocks = EmptyMap
    /\ canvasScroll = [x |-> 0, y |-> 0]
    /\ resizeStart = NoResize
    /\ history = <<>>
    /\ historyIndex = -1
    /\ discarded = 0
    /\ isApplyingHistory = FALSE
    /\ arrowMode = FALSE
    /\ arrowStart = NoAnchor
    /\ currentArrowColor = BLUE
    /\ currentArrowAlpha = 45
    /\ selectedArrowIndex = -1
    /\ editingArrowEndpoint = NoEdit
    /\ selectedBlockName = Absent
    /\ isDragging = FALSE
    /\ dragTarget = NoDrag
    /\ pendingAutoSizeBlock = Absent
    /\ rafQueue = <<>>
    /\ fetching = {}
    /\ asked = EmptyMap
    /\ shown = EmptyMap
    /\ saveQueue = <<>>
    /\ updateMsg = NoUpdate
    /\ arrowsRedrawScheduled = FALSE
    /\ redrawPending = 0
    /\ lastOp = "none"

Init == InitWith(InitDocs)

Ready == phase = "ready"

\* the variables of the pointer-driven controller
modeVars == <<arrowMode, arrowStart, currentArrowColor, currentArrowAlpha,
              selectedArrowIndex, editingArrowEndpoint>>
dragVars == <<isDragging>>
hostVars == <<disk, updateMsg>>
redrawVars == <<arrowsRedrawScheduled, redrawPending>>

\* faulty variant: a callback is requested whether or not one is pending
scheduleUpdateArrowsAlways ==
    /\ arrowsRedrawScheduled' = TRUE
    /\ redrawPending' = redrawPending + 1

\* scheduleUpdateArrows()
scheduleUpdateArrows ==
    IF arrowsRedrawScheduled
    THEN UNCHANGED redrawVars
    ELSE /\ arrowsRedrawScheduled' = TRUE
         /\ redrawPending' = redrawPending + 1

\* a handler that calls scheduleUpdateArrows() when c holds
ScheduleIf(c) == IF c THEN scheduleUpdateArrows ELSE UNCHANGED redrawVars

\* ------------------------------------------------------------- initialisation
\* faulty variant: the snapshot is taken before the blocks are loaded
LoadSnapshotFirst ==
    /\ phase = "init"
    /\ phase' = "ready"
    /\ loadCodeBlocks(codeMapData.codeMap)
    /\ codeMapData' = [codeMapData EXCEPT !.codeMap = Normalised(@)]
    /\ selectedBlockName' = SelectionAfterLoad(codeMapData.codeMap, selectedBlockName)
    /\ recordSnapshot(Doc(codeMapData.page_name,
                          deepCloneMap(codeMapData.codeMap), arrows))
    /\ lastOp' = "load"
    /\ UNCHANGED <<arrows, canvasScroll, isApplyingHistory, modeVars, dragVars,
                   pendingAutoSizeBlock, saveQueue, hostVars, redrawVars>>

\* loadCodeBlocks(); recordSnapshot();
Load ==
    /\ phase = "init"
    /\ phase' = "ready"
    /\ loadCodeBlocks(codeMapData.codeMap)
    /\ codeMapData' = [codeMapData EXCEPT !.codeMap = Normalised(@)]
    /\ selectedBlockName' = SelectionAfterLoad(codeMapData.codeMap, selectedBlockName)
    /\ recordSnapshot(Doc(codeMapData.page_name,
                          deepCloneMap(Normalised(codeMapData.codeMap)), arrows))
    /\ lastOp' = "load"
    /\ UNCHANGED <<arrows, canvasScroll, isApplyingHistory, modeVars, dragVars,
                   pendingAutoSizeBlock, saveQueue, hostVars, redrawVars>>

\* ------------------------------------------------------------------ undo/redo
\* faulty variant: the blocks are restored, the arrow list is not
applySnapshotKeepsArrows(state) ==
    LET cm == Normalised(state.codeMap) IN
    /\ loadCodeBlocks(state.codeMap)
    /\ selectedBlockName' = SelectionAfterLoad(state.codeMap, selectedBlockName)
    /\ codeMapData' = [page_name |-> state.page_name,
                       codeMap |-> SyncGeometry(cm, ViewOf(state.codeMap))]
    /\ arrows' = arrows
    /\ saveQueue' = Append(saveQueue,
                       SaveMessage(state.page_name,
                                   SyncGeometry(cm, ViewOf(state.codeMap)),
                                   arrows))
    /\ isApplyingHistory' = FALSE

\* codeMapData = deepClone(state); arrows = deepClone(state.arrows);
\* loadCodeBlocks(); saveData();  -- no snapshot is recorded
applySnapshot(state) ==
    LET cm == Normalised(state.codeMap) IN
    /\ loadCodeBlocks(state.codeMap)
    /\ selectedBlockName' = SelectionAfterLoad(state.codeMap, selectedBlockName)
    /\ codeMapData' = [page_name |-> state.page_name,
                       codeMap |-> SyncGeometry(cm, ViewOf(state.codeMap))]
    /\ arrows' = state.arrows
    /\ saveQueue' = Append(saveQueue,
                       SaveMessage(state.page_name,
                                   SyncGeometry(cm, ViewOf(state.codeMap)),
                                   state.arrows))
    /\ isApplyingHistory' = FALSE

\* faulty variant: the restored state is recorded as a new snapshot
undoRecords ==
    /\ Ready /\ CanSave /\ CanRecord
    /\ lastOp' = "undo"
    /\ IF canUndo
       THEN /\ loadCodeBlocks(history[historyIndex].codeMap)
            /\ selectedBlockName' =
                   SelectionAfterLoad(history[historyIndex].codeMap, selectedBlockName)
            /\ recordAndSave(history[historyIndex].page_name,
                             Normalised(history[historyIndex].codeMap),
                             history[historyIndex].arrows,
                             ViewOf(history[historyIndex].codeMap))
            /\ UNCHANGED <<phase, redrawVars, canvasScroll, isApplyingHistory, modeVars, dragVars,
                           pendingAutoSizeBlock, hostVars>>
       ELSE UNCHANGED <<phase, redrawVars, canvasScroll, codeMapData, arrows, codeBlocks, history,
                        historyIndex, discarded, isApplyingHistory, modeVars,
                        selectedBlockName, dragVars, dragTarget, resizeStart,
                        pendingAutoSizeBlock, rafQueue, fetching, asked, shown, saveQueue,
                        hostVars>>

\* faulty variant: no canUndo test; at the first snapshot the cursor leaves the
\* list and the read of history[-1] throws inside applySnapshot
undoUnguarded ==
    /\ Ready /\ CanSave
    /\ lastOp' = "undo"
    /\ IF historyIndex > 0
       THEN /\ historyIndex' = historyIndex - 1
            /\ applySnapshot(history[historyIndex])
            /\ UNCHANGED <<phase, redrawVars, canvasScroll, history, discarded, modeVars, dragVars,
                           pendingAutoSizeBlock, hostVars>>
       ELSE /\ historyIndex' = historyIndex - 1
            /\ isApplyingHistory' = TRUE
            /\ UNCHANGED <<phase, redrawVars, canvasScroll, codeMapData, arrows, codeBlocks, history,
                           discarded, modeVars, selectedBlockName, dragVars,
                           dragTarget, resizeStart, pendingAutoSizeBlock, rafQueue, fetching, asked, shown,
                           saveQueue, hostVars>>

undo ==
    /\ Ready /\ CanSave
    /\ lastOp' = "undo"
    /\ IF canUndo
       THEN /\ historyIndex' = historyIndex - 1
            /\ applySnapshot(history[historyIndex])
            /\ UNCHANGED <<phase, redrawVars, canvasScroll, history, discarded, modeVars, dragVars,
                           pendingAutoSizeBlock, hostVars>>
       ELSE UNCHANGED <<phase, redrawVars, canvasScroll, codeMapData, arrows, codeBlocks, history,
                        historyIndex, discarded, isApplyingHistory, modeVars,
                        selectedBlockName, dragVars, dragTarget, resizeStart,
                        pendingAutoSizeBlock, rafQueue, fetching, asked, shown, saveQueue,
                        hostVars>>

redo ==
    /\ Ready /\ CanSave
    /\ lastOp' = "redo"
    /\ IF canRedo
       THEN /\ historyIndex' = historyIndex + 1
            /\ applySnapshot(history[historyIndex + 2])
            /\ UNCHANGED <<phase, redrawVars, canvasScroll, history, discarded, modeVars, dragVars,
                           pendingAutoSizeBlock, hostVars>>
       ELSE UNCHANGED <<phase, redrawVars, canvasScroll, codeMapData, arrows, codeBlocks, history,
                        historyIndex, discarded, isApplyingHistory, modeVars,
                        selectedBlockName, dragVars, dragTarget, resizeStart,
                        pendingAutoSizeBlock, rafQueue, fetching, asked, shown, saveQueue,
                        hostVars>>

\* --------------------------------------------------------------- block store
Get(cm, k) == IF k \in DOMAIN cm THEN cm[k] ELSE Undefined
Truthy(cm, k) == k \in DOMAIN cm /\ cm[k] # Undefined

\* faulty variant: only the arrows that start at b are removed
removeAllFrom(ar, b) ==
    SelectSeq(ar, LAMBDA a : a.from.block # b)

\* arrows = arrows.filter(a => a.from.block !== b && a.to.block !== b)
removeAllReferencing(ar, b) ==
    SelectSeq(ar, LAMBDA a : a.from.block # b /\ a.to.block # b)

\* if (a.from.block === old) a.from.block = new; same for a.to
rewriteBlockId(ar, old, new) ==
    [i \in 1..Len(ar) |->
        [ar[i] EXCEPT !.from.block = IF @ = old THEN new ELSE @,
                      !.to.block   = IF @ = old THEN new ELSE @]]

\* faulty variant: two rewrites one after the other, id1 -> id2 then id2 -> id1
exchangeInTwoPasses(ar, id1, id2) ==
    rewriteBlockId(rewriteBlockId(ar, id1, id2), id2, id1)

\* the arrow rewrite of swapBlockIds: id1 <-> id2
exchangeBlockIds(ar, id1, id2) ==
    [i \in 1..Len(ar) |->
        [ar[i] EXCEPT
            !.from.block = IF @ = id1 THEN id2 ELSE IF @ = id2 THEN id1 ELSE @,
            !.to.block   = IF @ = id1 THEN id2 ELSE IF @ = id2 THEN id1 ELSE @]]

RECURSIVE SortedIds(_)
SortedIds(K) ==
    IF K = {} THEN <<>>
    ELSE LET k == CHOOSE k \in K : \A j \in K : parseInt(k) <= parseInt(j)
         IN  <<parseInt(k)>> \o SortedIds(K \ {k})

\* Object.keys(codeMap) filtered by /^\d+$/, parsed and sorted ascending
getNumericIds(cm) == SortedIds({k \in DOMAIN cm : numericOnly(k)})

\* the largest numeric title + 1, then `while (codeMap[name]) next += 1`
RECURSIVE NextFree(_, _)
NextFree(cm, n) == IF Truthy(cm, String(n)) THEN NextFree(cm, n + 1) ELSE String(n)

\* variant: the first numeral, counting from 1, that no block uses
firstUnusedName(cm) == NextFree(cm, 1)

getNextNumericNameForPath(cm) ==
    LET nums == {parseInt(k) : k \in {j \in DOMAIN cm : Truthy(cm, j) /\ numericOnly(j)}}
        maxNum == IF nums = {} THEN 0 ELSE Max(0, SetMax(nums))
    IN  NextFree(cm, maxNum + 1)

\* the blocks a pointer can reach: those with an element in the view
Visible == DOMAIN codeBlocks

\* faulty variant: no test that the block exists
deleteBlockUnchecked(blockName, sel) ==
    ReloadAndCommit(codeMapData.page_name,
                    Without(codeMapData.codeMap, blockName),
                    removeAllReferencing(arrows, blockName), sel)

\* deleteBlock(blockName)
deleteBlock(blockName, sel) ==
    IF ~Truthy(codeMapData.codeMap, blockName)
    THEN /\ selectedBlockName' = sel
         /\ UNCHANGED <<codeMapData, arrows, codeBlocks, history, historyIndex, discarded,
                        dragTarget, resizeStart, rafQueue, fetching, asked, shown, saveQueue>>
    ELSE ReloadAndCommit(codeMapData.page_name,
                         Without(codeMapData.codeMap, blockName),
                         removeAllReferencing(arrows, blockName), sel)

\* context menu "delete this block" (the menu is disabled in arrow mode)
MenuDeleteBlock(b) ==
    /\ Ready /\ CanRecord /\ CanSave
    /\ ~arrowMode
    /\ b \in Visible
    /\ deleteBlock(b, selectedBlockName)
    /\ lastOp' = "deleteBlock"
    /\ UNCHANGED <<phase, redrawVars, canvasScroll, isApplyingHistory, modeVars, dragVars,
                   pendingAutoSizeBlock, hostVars>>

\* deleteBlock(id) called with the id of a block or with an id no block has
DeleteCall(id) ==
    /\ Ready /\ CanRecord /\ CanSave
    /\ deleteBlock(id, selectedBlockName)
    /\ lastOp' = "deleteBlock"
    /\ UNCHANGED <<phase, redrawVars, canvasScroll, isApplyingHistory, modeVars, dragVars,
                   pendingAutoSizeBlock, hostVars>>

\* createPastedBlockAt(xClient, yClient, payload)
createPastedBlockAt(x, y, payload) ==
    LET name == getNextNumericNameForPath(codeMapData.codeMap)
        blk  == [name |-> name, path |-> payload.path,
                 start_line |-> payload.start_line, end_line |-> payload.end_line,
                 x |-> Max(0, x), y |-> Max(0, y),
                 w |-> IF payload.w = 0 THEN DEFAULT_W ELSE payload.w,
                 h |-> IF payload.h = 0 THEN DEFAULT_H ELSE payload.h]
    IN  ReloadAndCommit(codeMapData.page_name,
                        With(codeMapData.codeMap, name, blk), arrows,
                        selectedBlockName)

\* what the clipboard can hold, and where the menu can be opened
Payloads == {[path |-> "b.py", start_line |-> 30, end_line |-> 40, w |-> 0, h |-> 0]}
PastePoints == {[x |-> -5, y |-> 20]}

Paste ==
    /\ Ready /\ CanRecord /\ CanSave
    /\ ~arrowMode
    /\ Cardinality(DOMAIN codeMapData.codeMap) < MaxBlocks
    /\ \E payload \in Payloads, p \in PastePoints :
          createPastedBlockAt(p.x, p.y, payload)
    /\ lastOp' = "paste"
    /\ UNCHANGED <<phase, redrawVars, canvasScroll, isApplyingHistory, modeVars, dragVars,
                   pendingAutoSizeBlock, hostVars>>

\* swapBlockIds(id1, id2)
swapBlockIds(id1, id2) ==
    LET cm == codeMapData.codeMap IN
    IF ~Truthy(cm, id1) \/ ~Truthy(cm, id2) \/ id1 = id2
    THEN UNCHANGED <<codeMapData, arrows, codeBlocks, history, historyIndex, discarded,
                     selectedBlockName, dragTarget, resizeStart, rafQueue, fetching, asked, shown, saveQueue>>
    ELSE ReloadAndCommit(codeMapData.page_name,
                         [cm EXCEPT ![id1] = cm[id2], ![id2] = cm[id1]],
                         exchangeBlockIds(arrows, id1, id2),
                         selectedBlockName)

NoChange ==
    UNCHANGED <<codeMapData, arrows, codeBlocks, history, historyIndex, discarded,
                selectedBlockName, dragTarget, resizeStart, rafQueue, fetching, asked, shown, saveQueue>>

moveBlockUp(blockId) ==
    LET larger == SelectSeq(getNumericIds(codeMapData.codeMap),
                            LAMBDA id : id > parseInt(blockId))
    IN  IF ~numericOnly(blockId) \/ larger = <<>>
        THEN NoChange
        ELSE swapBlockIds(blockId, String(Head(larger)))

moveBlockDown(blockId) ==
    LET smaller == SelectSeq(getNumericIds(codeMapData.codeMap),
                             LAMBDA id : id < parseInt(blockId))
    IN  IF ~numericOnly(blockId) \/ smaller = <<>>
        THEN NoChange
        ELSE swapBlockIds(blockId, String(smaller[Len(smaller)]))

\* faulty variant: every larger id takes the id just below it
topMovesBySlot(cm, blockId) ==
    LET ids    == getNumericIds(cm)
        cur    == parseInt(blockId)
        larger == SelectSeq(ids, LAMBDA id : id > cur)
    IN  <<[from |-> blockId, to |-> String(ids[Len(ids)]), data |-> Get(cm, blockId)]>>
        \o [i \in 1..Len(larger) |->
              [from |-> String(larger[i]),
               to |-> IF i = 1 THEN blockId ELSE String(larger[i - 1]),
               data |-> Get(cm, String(larger[i]))]]

\* ------------------------------------------------------------- moveBlockToTop
\* moves[0] sends blockId to the maximum; the i-th larger id goes to
\* currentId + i.  Each entry carries a deep copy of the block it moves.
topMoves(cm, blockId) ==
    LET ids    == getNumericIds(cm)
        cur    == parseInt(blockId)
        larger == SelectSeq(ids, LAMBDA id : id > cur)
    IN  <<[from |-> blockId, to |-> String(ids[Len(ids)]), data |-> Get(cm, blockId)]>>
        \o [i \in 1..Len(larger) |->
              [from |-> String(larger[i]), to |-> String(cur + (i - 1)),
               data |-> Get(cm, String(larger[i]))]]

\* idMapping[move.from] = move.to, later moves overwrite earlier ones
idMapping(moves) ==
    [k \in {moves[i].from : i \in 1..Len(moves)} |->
        moves[SetMax({i \in 1..Len(moves) : moves[i].from = k})].to]

applyIdMapping(ar, m) ==
    [i \in 1..Len(ar) |->
        [ar[i] EXCEPT !.from.block = IF @ \in DOMAIN m THEN m[@] ELSE @,
                      !.to.block   = IF @ \in DOMAIN m THEN m[@] ELSE @]]

\* delete every move.from, then set every move.to in order
applyMoves(cm, moves) ==
    LET froms == {moves[i].from : i \in 1..Len(moves)}
        tos   == {moves[i].to : i \in 1..Len(moves)}
    IN  [k \in ((DOMAIN cm) \ froms) \cup tos |->
            IF k \in tos
            THEN moves[SetMax({i \in 1..Len(moves) : moves[i].to = k})].data
            ELSE cm[k]]

moveBlockToTop(blockId) ==
    LET cm    == codeMapData.codeMap
        ids   == getNumericIds(cm)
        moves == topMoves(cm, blockId)
    IN  IF ~numericOnly(blockId) \/ parseInt(blockId) >= ids[Len(ids)]
        THEN NoChange
        ELSE IF \E i \in 1..Len(moves) : moves[i].data = Undefined
             \* JSON.parse(JSON.stringify(undefined)) throws before any change
             THEN NoChange
             ELSE ReloadAndCommit(codeMapData.page_name,
                                  applyMoves(cm, moves),
                                  applyIdMapping(arrows, idMapping(moves)),
                                  selectedBlockName)

\* ---------------------------------------------------------- moveBlockToBottom
\* codeMap[to] = codeMap[from]; delete codeMap[from]; arrows from -> to
moveEntry(st, from, to) ==
    [cm |-> Without(With(st.cm, to, Get(st.cm, from)), from),
     ar |-> rewriteBlockId(st.ar, from, to)]

\* smallerIds.reverse().forEach(id => move String(id) to String(id + 1))
RECURSIVE shiftUp(_, _)
shiftUp(st, ids) ==
    IF ids = <<>> THEN st
    ELSE LET id == ids[Len(ids)]
         IN  shiftUp(moveEntry(st, String(id), String(id + 1)),
                     SubSeq(ids, 1, Len(ids) - 1))

tempIdOf(cm) == String(getNumericIds(cm)[1] + TEMP_OFFSET)

bottomResult(cm, ar, blockId) ==
    LET ids     == getNumericIds(cm)
        minId   == ids[1]
        smaller == SelectSeq(ids, LAMBDA id : id < parseInt(blockId))
        tempId  == tempIdOf(cm)
        staged  == moveEntry([cm |-> cm, ar |-> ar], blockId, tempId)
        shifted == shiftUp(staged, smaller)
    IN  moveEntry(shifted, tempId, String(minId))

\* faulty variant: the lowest block is not left alone
moveBlockToBottomStrict(blockId) ==
    LET cm  == codeMapData.codeMap
        ids == getNumericIds(cm)
    IN  IF ~numericOnly(blockId) \/ parseInt(blockId) < ids[1]
        THEN NoChange
        ELSE LET r == bottomResult(cm, arrows, blockId)
             IN  ReloadAndCommit(codeMapData.page_name, r.cm, r.ar,
                                 selectedBlockName)

moveBlockToBottom(blockId) ==
    LET cm  == codeMapData.codeMap
        ids == getNumericIds(cm)
    IN  IF ~numericOnly(blockId) \/ parseInt(blockId) <= ids[1]
        THEN NoChange
        ELSE LET r == bottomResult(cm, arrows, blockId)
             IN  ReloadAndCommit(codeMapData.page_name, r.cm, r.ar,
                                 selectedBlockName)

\* the four renumbering entries of the block menu
Renumber ==
    /\ Ready /\ CanRecord /\ CanSave
    /\ ~arrowMode
    /\ \E b \in Visible :
          \/ moveBlockUp(b) /\ lastOp' = "moveBlockUp"
          \/ moveBlockDown(b) /\ lastOp' = "moveBlockDown"
          \/ moveBlockToTop(b) /\ lastOp' = "moveBlockToTop"
          \/ moveBlockToBottom(b) /\ lastOp' = "moveBlockToBottom"
    /\ UNCHANGED <<phase, redrawVars, canvasScroll, isApplyingHistory, modeVars, dragVars,
                   pendingAutoSizeBlock, hostVars>>

\* ---------------------------------------------------------------- renameBlock
\* what can be typed into the rename box, after trim()
RenameInputs == {Absent, KeyX, 7}

renameBlock(blockId, newDisplayName) ==
    IF blockId \notin DOMAIN codeBlocks
    THEN NoChange
    ELSE /\ recordAndSave(codeMapData.page_name,
                          [codeMapData.codeMap EXCEPT ![blockId].name = newDisplayName],
                          arrows, codeBlocks)
         /\ UNCHANGED <<codeBlocks, selectedBlockName, dragTarget, resizeStart, rafQueue, fetching, asked, shown>>

\* what can be typed into the rename box, as sequences of characters
RenameTexts == {<<>>, <<" ">>, <<"x">>, <<" ", "x">>, <<"x", " ">>, <<"7">>}

\* faulty variant: only the leading white space is removed
trimLeading(s) ==
    LET keep == {i \in 1..Len(s) : s[i] # " "}
    IN  IF keep = {} THEN <<>> ELSE SubSeq(s, SetMin(keep), Len(s))

\* String.prototype.trim
trim(s) ==
    LET keep == {i \in 1..Len(s) : s[i] # " "}
    IN  IF keep = {} THEN <<>> ELSE SubSeq(s, SetMin(keep), SetMax(keep))

\* the display name a text stands for: "" is falsy, "x" and "7" are the
\* names of RenameInputs, any other text is a name of its own
nameOf(s) ==
    IF s = <<>> THEN Absent
    ELSE IF s = <<"x">> THEN KeyX
    ELSE IF s = <<"7">> THEN 7
    ELSE -10 - Len(s)

\* commit() of the rename box of block b holding the text raw (Enter or the
\* accept control)
RenameBox(b, raw) ==
    /\ Ready /\ CanRecord /\ CanSave
    /\ ~arrowMode /\ editingArrowEndpoint = NoEdit
    /\ lastOp' = "rename"
    /\ LET newDisplayName == nameOf(trim(raw)) IN
       IF newDisplayName = Absent \/ newDisplayName = codeMapData.codeMap[b].name
       THEN NoChange
       ELSE renameBlock(b, newDisplayName)
    /\ UNCHANGED <<phase, redrawVars, canvasScroll, isApplyingHistory, modeVars, dragVars,
                   pendingAutoSizeBlock, hostVars>>

RenameCommit == \E b \in Visible, raw \in RenameTexts : RenameBox(b, raw)

\* renameBlock(id, n) called with the id of a block or with an id no block has
RenameCall(id, n) ==
    /\ Ready /\ CanRecord /\ CanSave
    /\ renameBlock(id, n)
    /\ lastOp' = "renameBlock"
    /\ UNCHANGED <<phase, redrawVars, canvasScroll, isApplyingHistory, modeVars, dragVars,
                   pendingAutoSizeBlock, hostVars>>

\* ---------------------------------------------------------------- arrow store
\* the content offsets a click can produce (getOffsetsFromClick)
ClickOffsets == {[x |-> 5, y |-> 10], [x |-> 3, y |-> 4]}
OneOffset == {[x |-> 5, y |-> 10]}
Colors == {BLUE, RED}
Alphas == {45, 100}

InRange(index, ar) == index >= 0 /\ index < Len(ar)

\* an arrow has a widget to click when both of its blocks are rendered
Rendered(a) == a.from.block \in Visible /\ a.to.block \in Visible

\* selectArrow(index) on the list ar: the panel follows the arrow; an arrow
\* stored without color takes the panel's color
selectArrow(index, ar) ==
    IF ~InRange(index, ar)
    THEN /\ arrows' = ar
         /\ UNCHANGED <<selectedArrowIndex, editingArrowEndpoint,
                        currentArrowColor, currentArrowAlpha>>
    ELSE LET a == ar[index + 1] IN
         /\ selectedArrowIndex' = index
         /\ editingArrowEndpoint' = NoEdit
         /\ currentArrowColor' = IF a.color # NoColor THEN a.color ELSE currentArrowColor
         /\ currentArrowAlpha' = IF a.alpha # NoAlpha THEN a.alpha ELSE 100
         /\ arrows' = IF a.color # NoColor THEN ar
                      ELSE [ar EXCEPT ![index + 1].color = currentArrowColor]

\* click on an arrow's line or head
ArrowClick ==
    /\ Ready
    /\ \E i \in 0..(Len(arrows) - 1) :
          /\ Rendered(arrows[i + 1])
          /\ selectArrow(i, arrows)
          /\ lastOp' = "selectArrow"
    /\ scheduleUpdateArrows
    /\ UNCHANGED <<phase, canvasScroll, codeMapData, codeBlocks, history, historyIndex, discarded,
                   isApplyingHistory, arrowMode, arrowStart, selectedBlockName,
                   dragVars, dragTarget, resizeStart, pendingAutoSizeBlock, rafQueue,
                   fetching, asked, shown, saveQueue, hostVars>>

\* selectArrow(i) called with an index inside or outside the arrow list
SelectCall(i) ==
    /\ Ready
    /\ selectArrow(i, arrows)
    /\ lastOp' = "selectArrow"
    /\ ScheduleIf(InRange(i, arrows))
    /\ UNCHANGED <<phase, canvasScroll, codeMapData, codeBlocks, history, historyIndex, discarded,
                   isApplyingHistory, arrowMode, arrowStart, selectedBlockName,
                   dragVars, dragTarget, resizeStart, pendingAutoSizeBlock, rafQueue,
                   fetching, asked, shown, saveQueue, hostVars>>

\* click on an endpoint handle of the selected arrow: beginEditArrowEndpoint
EndpointHandleClick ==
    /\ Ready
    /\ InRange(selectedArrowIndex, arrows)
    /\ Rendered(arrows[selectedArrowIndex + 1])
    /\ \E endpoint \in {"from", "to"} :
          editingArrowEndpoint' = [index |-> selectedArrowIndex, endpoint |-> endpoint]
    /\ lastOp' = "beginEditArrowEndpoint"
    /\ scheduleUpdateArrows
    /\ UNCHANGED <<phase, canvasScroll, codeMapData, arrows, codeBlocks, history, historyIndex, discarded,
                   isApplyingHistory, arrowMode, arrowStart, currentArrowColor,
                   currentArrowAlpha, selectedArrowIndex, selectedBlockName,
                   dragVars, dragTarget, resizeStart, pendingAutoSizeBlock, rafQueue,
                   fetching, asked, shown, saveQueue, hostVars>>

\* recordAndSave() of a handler that changes only the arrow list
commitArrows(ar) ==
    /\ recordAndSave(codeMapData.page_name, codeMapData.codeMap, ar, codeBlocks)
    /\ UNCHANGED <<codeBlocks, selectedBlockName, dragTarget, resizeStart, rafQueue, fetching, asked, shown>>

\* faulty variant: the anchor is written to the other endpoint
updateArrowEndpointSwapped(index, endpoint, block, x, y) ==
    IF ~InRange(index, arrows)
    THEN NoChange
    ELSE commitArrows(IF endpoint = "from"
                      THEN [arrows EXCEPT ![index + 1].to = Anchor(block, x, y)]
                      ELSE [arrows EXCEPT ![index + 1].from = Anchor(block, x, y)])

\* updateArrowEndpointTo(index, endpoint, block, xOffset, yOffset)
updateArrowEndpointTo(index, endpoint, block, x, y) ==
    IF ~InRange(index, arrows)
    THEN NoChange
    ELSE commitArrows(IF endpoint = "from"
                      THEN [arrows EXCEPT ![index + 1].from = Anchor(block, x, y)]
                      ELSE [arrows EXCEPT ![index + 1].to = Anchor(block, x, y)])

\* faulty variant: the second click is not compared with the start anchor
handleLineContentClickNoCheck(blockName, x, y) ==
    IF arrowStart = NoAnchor
    THEN /\ arrowStart' = Anchor(blockName, x, y)
         /\ NoChange
         /\ UNCHANGED <<selectedArrowIndex, editingArrowEndpoint,
                        currentArrowColor, currentArrowAlpha, redrawVars>>
    ELSE LET arrow == Arrow(Anchor(arrowStart.block, arrowStart.x, arrowStart.y),
                            Anchor(blockName, x, y),
                            currentArrowColor, currentArrowAlpha)
             ar == Append(arrows, arrow)
         IN  /\ selectedArrowIndex' = Len(ar) - 1
             /\ editingArrowEndpoint' = NoEdit
             /\ currentArrowColor' = arrow.color
             /\ currentArrowAlpha' = arrow.alpha
             /\ scheduleUpdateArrows
             /\ commitArrows(ar)
             /\ arrowStart' = NoAnchor

\* faulty variant: the start anchor is kept when the arrow is completed
handleLineContentClickKeepsStart(blockName, x, y) ==
    IF arrowStart = NoAnchor
    THEN /\ arrowStart' = Anchor(blockName, x, y)
         /\ NoChange
         /\ UNCHANGED <<selectedArrowIndex, editingArrowEndpoint,
                        currentArrowColor, currentArrowAlpha, redrawVars>>
    ELSE IF arrowStart.block = blockName /\ arrowStart.x = x /\ arrowStart.y = y
    THEN /\ NoChange
         /\ UNCHANGED <<arrowStart, selectedArrowIndex, editingArrowEndpoint,
                        currentArrowColor, currentArrowAlpha, redrawVars>>
    ELSE LET arrow == Arrow(Anchor(arrowStart.block, arrowStart.x, arrowStart.y),
                            Anchor(blockName, x, y),
                            currentArrowColor, currentArrowAlpha)
             ar == Append(arrows, arrow)
         IN  /\ selectedArrowIndex' = Len(ar) - 1
             /\ editingArrowEndpoint' = NoEdit
             /\ currentArrowColor' = arrow.color
             /\ currentArrowAlpha' = arrow.alpha
             /\ scheduleUpdateArrows
             /\ commitArrows(ar)
             /\ arrowStart' = arrowStart

\* handleLineContentClick(lineContentEl, clientX, clientY)
handleLineContentClick(blockName, x, y) ==
    IF arrowStart = NoAnchor
    THEN /\ arrowStart' = Anchor(blockName, x, y)
         /\ NoChange
         /\ UNCHANGED <<selectedArrowIndex, editingArrowEndpoint,
                        currentArrowColor, currentArrowAlpha, redrawVars>>
    ELSE IF arrowStart.block = blockName /\ arrowStart.x = x /\ arrowStart.y = y
    THEN /\ NoChange
         /\ UNCHANGED <<arrowStart, selectedArrowIndex, editingArrowEndpoint,
                        currentArrowColor, currentArrowAlpha, redrawVars>>
    ELSE LET arrow == Arrow(Anchor(arrowStart.block, arrowStart.x, arrowStart.y),
                            Anchor(blockName, x, y),
                            currentArrowColor, currentArrowAlpha)
             ar == Append(arrows, arrow)
         IN  /\ selectedArrowIndex' = Len(ar) - 1
             /\ editingArrowEndpoint' = NoEdit
             /\ currentArrowColor' = arrow.color
             /\ currentArrowAlpha' = arrow.alpha
             /\ scheduleUpdateArrows
             /\ commitArrows(ar)
             /\ arrowStart' = NoAnchor

\* canvas click on the code line of block b at offset o (arrow mode or
\* endpoint editing; otherwise the block's own click handler takes the event)
LineClick(b, o) ==
    /\ Ready /\ CanRecord /\ CanSave
    /\ arrowMode \/ editingArrowEndpoint # NoEdit
    /\ Len(arrows) < MaxArrows \/ arrowStart = NoAnchor \/ editingArrowEndpoint # NoEdit
    /\ IF editingArrowEndpoint # NoEdit
       THEN /\ editingArrowEndpoint' = NoEdit
            /\ updateArrowEndpointTo(editingArrowEndpoint.index,
                                     editingArrowEndpoint.endpoint, b, o.x, o.y)
            /\ lastOp' = "updateArrowEndpointTo"
            /\ UNCHANGED <<arrowStart, selectedArrowIndex, currentArrowColor,
                           currentArrowAlpha, redrawVars>>
       ELSE /\ handleLineContentClick(b, o.x, o.y)
            /\ lastOp' = IF arrowStart = NoAnchor THEN "arrowStart"
                         ELSE IF arrowStart' = NoAnchor THEN "arrowCreated"
                         ELSE "arrowIgnored"
    /\ UNCHANGED <<phase, canvasScroll, isApplyingHistory, arrowMode, dragVars,
                   pendingAutoSizeBlock, hostVars>>

ContentClickAt(offsets) == \E b \in Visible, o \in offsets : LineClick(b, o)

ContentClick == ContentClickAt(ClickOffsets)

\* canvas click on empty canvas
CanvasClick ==
    /\ Ready
    /\ lastOp' = "canvasClick"
    /\ IF editingArrowEndpoint # NoEdit
       THEN /\ editingArrowEndpoint' = NoEdit
            /\ UNCHANGED <<selectedArrowIndex, selectedBlockName>>
       ELSE IF ~arrowMode
       THEN /\ selectedArrowIndex' = -1
            /\ editingArrowEndpoint' = NoEdit
            /\ selectedBlockName' = Absent
       ELSE UNCHANGED <<selectedArrowIndex, editingArrowEndpoint, selectedBlockName>>
    /\ ScheduleIf(editingArrowEndpoint # NoEdit \/ (~arrowMode /\ selectedArrowIndex # -1))
    /\ UNCHANGED <<phase, canvasScroll, codeMapData, arrows, codeBlocks, history, historyIndex, discarded,
                   isApplyingHistory, arrowMode, arrowStart, currentArrowColor,
                   currentArrowAlpha, dragVars, dragTarget, resizeStart, pendingAutoSizeBlock,
                   rafQueue, fetching, asked, shown, saveQueue, hostVars>>

isArrowLikeModeActive == arrowMode \/ editingArrowEndpoint # NoEdit

\* click on a block: select it, deselect any arrow
BlockClick ==
    /\ Ready
    /\ ~isArrowLikeModeActive
    /\ \E b \in Visible :
          /\ selectedBlockName' = b
          /\ lastOp' = "blockClick"
    /\ selectedArrowIndex' = -1
    /\ editingArrowEndpoint' = NoEdit
    /\ ScheduleIf(selectedArrowIndex # -1)
    /\ UNCHANGED <<phase, canvasScroll, codeMapData, arrows, codeBlocks, history, historyIndex, discarded,
                   isApplyingHistory, arrowMode, arrowStart, currentArrowColor,
                   currentArrowAlpha, dragVars, dragTarget, resizeStart, pendingAutoSizeBlock,
                   rafQueue, fetching, asked, shown, saveQueue, hostVars>>

\* the arrow tool button
ArrowToolClick ==
    /\ Ready
    /\ arrowMode' = ~arrowMode
    /\ arrowStart' = IF arrowMode THEN NoAnchor ELSE arrowStart
    /\ lastOp' = "arrowTool"
    /\ UNCHANGED <<phase, redrawVars, canvasScroll, codeMapData, arrows, codeBlocks, history, historyIndex, discarded,
                   isApplyingHistory, currentArrowColor, currentArrowAlpha,
                   selectedArrowIndex, editingArrowEndpoint, selectedBlockName,
                   dragVars, dragTarget, resizeStart, pendingAutoSizeBlock, rafQueue,
                   fetching, asked, shown, saveQueue, hostVars>>

\* keydown Escape
Escape ==
    /\ Ready
    /\ lastOp' = "escape"
    /\ selectedArrowIndex' = -1
    /\ editingArrowEndpoint' = NoEdit
    /\ arrowMode' = FALSE
    /\ arrowStart' = IF arrowMode THEN NoAnchor ELSE arrowStart
    /\ ScheduleIf(editingArrowEndpoint # NoEdit \/ selectedArrowIndex # -1)
    /\ UNCHANGED <<phase, canvasScroll, codeMapData, arrows, codeBlocks, history, historyIndex, discarded,
                   isApplyingHistory, currentArrowColor, currentArrowAlpha,
                   selectedBlockName, dragVars, dragTarget, resizeStart, pendingAutoSizeBlock,
                   rafQueue, fetching, asked, shown, saveQueue, hostVars>>

\* keydown Delete / Backspace
DeleteKey ==
    /\ Ready /\ CanRecord /\ CanSave
    /\ editingArrowEndpoint' = NoEdit
    /\ IF selectedArrowIndex # -1
       THEN \* deleteSelectedArrow()
            /\ lastOp' = "deleteSelectedArrow"
            /\ IF ~InRange(selectedArrowIndex, arrows)
               THEN NoChange /\ UNCHANGED selectedArrowIndex
               ELSE /\ selectedArrowIndex' = -1
                    /\ commitArrows(RemoveAt(arrows, selectedArrowIndex + 1))
       ELSE IF selectedBlockName # Absent
       THEN \* deleteSelectedBlock()
            /\ lastOp' = "deleteSelectedBlock"
            /\ deleteBlock(selectedBlockName, Absent)
            /\ UNCHANGED selectedArrowIndex
       ELSE /\ lastOp' = "deleteKey"
            /\ NoChange /\ UNCHANGED selectedArrowIndex
    /\ ScheduleIf(InRange(selectedArrowIndex, arrows))
    /\ UNCHANGED <<phase, canvasScroll, isApplyingHistory, arrowMode, arrowStart,
                   currentArrowColor, currentArrowAlpha, dragVars,
                   pendingAutoSizeBlock, hostVars>>

\* the color input and the presets
ColorInput ==
    /\ Ready /\ CanRecord /\ CanSave
    /\ \E c \in Colors :
          /\ currentArrowColor' = c
          /\ IF InRange(selectedArrowIndex, arrows)
             THEN commitArrows([arrows EXCEPT ![selectedArrowIndex + 1].color = c])
             ELSE NoChange
    /\ lastOp' = "colorInput"
    /\ UNCHANGED <<phase, redrawVars, canvasScroll, isApplyingHistory, arrowMode, arrowStart,
                   currentArrowAlpha, selectedArrowIndex, editingArrowEndpoint,
                   dragVars, pendingAutoSizeBlock, hostVars>>

\* the alpha slider
AlphaInput ==
    /\ Ready /\ CanRecord /\ CanSave
    /\ \E v \in Alphas :
          /\ currentArrowAlpha' = v
          /\ IF InRange(selectedArrowIndex, arrows)
             THEN commitArrows([arrows EXCEPT ![selectedArrowIndex + 1].alpha = v])
             ELSE NoChange
    /\ lastOp' = "alphaInput"
    /\ UNCHANGED <<phase, redrawVars, canvasScroll, isApplyingHistory, arrowMode, arrowStart,
                   currentArrowColor, selectedArrowIndex, editingArrowEndpoint,
                   dragVars, pendingAutoSizeBlock, hostVars>>

\* blur of the page title: page_name = text.trim() || 'CodeMapFree'
PageTexts == {"", "P"}

PageNameBlur ==
    /\ Ready /\ CanRecord /\ CanSave
    /\ \E text \in PageTexts :
          recordAndSave(IF text = "" THEN DEFAULT_PAGE ELSE text,
                        codeMapData.codeMap, arrows, codeBlocks)
    /\ lastOp' = "pageName"
    /\ UNCHANGED <<phase, redrawVars, canvasScroll, codeBlocks, isApplyingHistory, modeVars,
                   selectedBlockName, dragVars, dragTarget, resizeStart,
                   pendingAutoSizeBlock, rafQueue, fetching, asked, shown, hostVars>>

\* ------------------------------------------------------------------ dragging
\* where the pointer can take the dragged block (before clamping)
DragPoints == {[x |-> -20, y |-> 30]}

\* mousedown on a block header
HeaderMouseDown ==
    /\ Ready
    /\ ~isArrowLikeModeActive
    /\ resizeStart = NoResize
    /\ \E b \in Visible :
          /\ dragTarget' = [id |-> b, live |-> TRUE]
          /\ lastOp' = "mousedown"
    /\ isDragging' = TRUE
    /\ UNCHANGED <<phase, redrawVars, canvasScroll, resizeStart, codeMapData, arrows, codeBlocks,
                   history, historyIndex, discarded,
                   isApplyingHistory, modeVars, selectedBlockName,
                   pendingAutoSizeBlock, rafQueue, fetching, asked, shown, saveQueue, hostVars>>

\* mousedown on a resize handle of a block, one of the handles dirs:
\* beginResize(e, blockEl, dir); the button is up when it is pressed
ResizeMouseDownIn(dirs) ==
    /\ Ready
    /\ ~isArrowLikeModeActive
    /\ resizeStart = NoResize /\ ~isDragging
    /\ \E b \in Visible, dir \in dirs :
          resizeStart' = [id |-> b, live |-> TRUE, dir |-> dir,
                          left |-> codeBlocks[b].x, top |-> codeBlocks[b].y,
                          width |-> codeBlocks[b].w, height |-> codeBlocks[b].h]
    /\ lastOp' = "beginResize"
    /\ UNCHANGED <<phase, redrawVars, canvasScroll, codeMapData, arrows, codeBlocks,
                   history, historyIndex, discarded, isApplyingHistory, modeVars,
                   selectedBlockName, dragVars, dragTarget, pendingAutoSizeBlock,
                   rafQueue, fetching, asked, shown, saveQueue, hostVars>>

ResizeMouseDown == ResizeMouseDownIn({"se", "nw"})

\* faulty variant: at the minimum size the left and top follow the pointer
ResizedNoPullBack(start, dx, dy) ==
    LET hasN == start.dir \in {"n", "ne", "nw"}
        hasS == start.dir \in {"s", "se", "sw"}
        hasW == start.dir \in {"w", "nw", "sw"}
        hasE == start.dir \in {"e", "ne", "se"}
        w1 == IF hasW THEN start.width - dx
              ELSE IF hasE THEN start.width + dx ELSE start.width
        h1 == IF hasN THEN start.height - dy
              ELSE IF hasS THEN start.height + dy ELSE start.height
        l1 == IF hasW THEN start.left + dx ELSE start.left
        t1 == IF hasN THEN start.top + dy ELSE start.top
    IN  [x |-> Max(0, l1), y |-> Max(0, t1), w |-> Max(w1, MIN_W), h |-> Max(h1, MIN_H)]

\* the rectangle the resize branch of mousemove gives the target
Resized(start, dx, dy) ==
    LET hasN == start.dir \in {"n", "ne", "nw"}
        hasS == start.dir \in {"s", "se", "sw"}
        hasW == start.dir \in {"w", "nw", "sw"}
        hasE == start.dir \in {"e", "ne", "se"}
        w1 == IF hasW THEN start.width - dx
              ELSE IF hasE THEN start.width + dx ELSE start.width
        h1 == IF hasN THEN start.height - dy
              ELSE IF hasS THEN start.height + dy ELSE start.height
        l1 == IF hasW THEN start.left + dx ELSE start.left
        t1 == IF hasN THEN start.top + dy ELSE start.top
        l2 == IF w1 < MIN_W /\ hasW THEN l1 - (MIN_W - w1) ELSE l1
        t2 == IF h1 < MIN_H /\ hasN THEN t1 - (MIN_H - h1) ELSE t1
    IN  [x |-> Max(0, l2), y |-> Max(0, t2), w |-> Max(w1, MIN_W), h |-> Max(h1, MIN_H)]

\* faulty variant: the dragged element is not kept inside the canvas
MouseMoveUnclamped ==
    /\ Ready
    /\ IF resizeStart # NoResize
       THEN \E d \in {[dx |-> -150, dy |-> 40]} :
               LET r == Resized(resizeStart, d.dx, d.dy) IN
               codeBlocks' = IF resizeStart.live
                             THEN [codeBlocks EXCEPT ![resizeStart.id].x = r.x,
                                                     ![resizeStart.id].y = r.y,
                                                     ![resizeStart.id].w = r.w,
                                                     ![resizeStart.id].h = r.h]
                             ELSE codeBlocks
       ELSE /\ isDragging /\ dragTarget # NoDrag
            /\ \E p \in DragPoints :
                  codeBlocks' = IF dragTarget.live
                                THEN [codeBlocks EXCEPT ![dragTarget.id].x = p.x,
                                                        ![dragTarget.id].y = p.y]
                                ELSE codeBlocks
    /\ lastOp' = "mousemove"
    /\ UNCHANGED <<phase, redrawVars, canvasScroll, resizeStart, codeMapData, arrows,
                   history, historyIndex, discarded,
                   isApplyingHistory, modeVars, selectedBlockName, dragVars,
                   dragTarget, pendingAutoSizeBlock, rafQueue, fetching, asked, shown,
                   saveQueue, hostVars>>

\* mousemove, the pointer at one of the distances deltas from where the resize
\* began: while resizing the target takes the resized rectangle; while
\* dragging the element follows the pointer, clamped at 0
MouseMoveBy(deltas) ==
    /\ Ready
    /\ IF resizeStart # NoResize
       THEN \E d \in deltas :
               LET r == Resized(resizeStart, d.dx, d.dy) IN
               codeBlocks' = IF resizeStart.live
                             THEN [codeBlocks EXCEPT ![resizeStart.id].x = r.x,
                                                     ![resizeStart.id].y = r.y,
                                                     ![resizeStart.id].w = r.w,
                                                     ![resizeStart.id].h = r.h]
                             ELSE codeBlocks
       ELSE /\ isDragging /\ dragTarget # NoDrag
            /\ \E p \in DragPoints :
                  codeBlocks' = IF dragTarget.live
                                THEN [codeBlocks EXCEPT ![dragTarget.id].x = Max(0, p.x),
                                                        ![dragTarget.id].y = Max(0, p.y)]
                                ELSE codeBlocks
    /\ lastOp' = "mousemove"
    /\ UNCHANGED <<phase, redrawVars, canvasScroll, resizeStart, codeMapData, arrows,
                   history, historyIndex, discarded,
                   isApplyingHistory, modeVars, selectedBlockName, dragVars,
                   dragTarget, pendingAutoSizeBlock, rafQueue, fetching, asked, shown,
                   saveQueue, hostVars>>

MouseMove == MouseMoveBy({[dx |-> -150, dy |-> 40]})

\* mouseup
MouseUp ==
    /\ Ready /\ CanRecord /\ CanSave
    /\ lastOp' = "mouseup"
    /\ IF resizeStart # NoResize
       THEN /\ resizeStart' = NoResize
            /\ recordAndSave(codeMapData.page_name, codeMapData.codeMap,
                             arrows, codeBlocks)
            /\ UNCHANGED <<isDragging, dragTarget, codeBlocks, selectedBlockName,
                           rafQueue, fetching, asked, shown>>
       ELSE /\ isDragging' = FALSE
            /\ dragTarget' = IF isDragging THEN NoDrag ELSE dragTarget
            /\ UNCHANGED resizeStart
            /\ IF isDragging /\ dragTarget # NoDrag
               THEN /\ recordAndSave(codeMapData.page_name, codeMapData.codeMap,
                                     arrows, codeBlocks)
                    /\ UNCHANGED <<codeBlocks, selectedBlockName, rafQueue, fetching, asked, shown>>
               ELSE UNCHANGED <<codeMapData, arrows, codeBlocks, history, historyIndex,
                                discarded, selectedBlockName, rafQueue, fetching, asked, shown,
                                saveQueue>>
    /\ UNCHANGED <<phase, redrawVars, canvasScroll, isApplyingHistory, modeVars,
                   pendingAutoSizeBlock, hostVars>>

\* ------------------------------------------------------------------ scrolling
\* the positions a scroll bar can be left at
ScrollOffsets == {[x |-> 0, y |-> 0], [x |-> 30, y |-> 10]}

\* the user scrolls the canvas container
CanvasScroll ==
    /\ Ready
    /\ \E s \in ScrollOffsets \ {canvasScroll} : canvasScroll' = s
    /\ lastOp' = "canvasScroll"
    /\ UNCHANGED <<phase, redrawVars, codeMapData, arrows, codeBlocks, resizeStart,
                   history, historyIndex, discarded, isApplyingHistory, modeVars,
                   selectedBlockName, dragVars, dragTarget, pendingAutoSizeBlock,
                   rafQueue, fetching, asked, shown, saveQueue, hostVars>>

\* the user scrolls the content pane of a block
ContentScroll ==
    /\ Ready
    /\ \E b \in Visible, s \in ScrollOffsets :
          /\ [x |-> codeBlocks[b].scrollLeft, y |-> codeBlocks[b].scrollTop] # s
          /\ codeBlocks' = [codeBlocks EXCEPT ![b].scrollLeft = s.x,
                                              ![b].scrollTop = s.y]
    /\ lastOp' = "contentScroll"
    /\ UNCHANGED <<phase, redrawVars, canvasScroll, codeMapData, arrows, resizeStart,
                   history, historyIndex, discarded, isApplyingHistory, modeVars,
                   selectedBlockName, dragVars, dragTarget, pendingAutoSizeBlock,
                   rafQueue, fetching, asked, shown, saveQueue, hostVars>>

\* ------------------------------------------------------------ anchor points
\* canvas.getBoundingClientRect(): the canvas container lies below the toolbar
CanvasRect == [left |-> 0, top |-> 40]

\* contentEl.getBoundingClientRect() of block b: the pane lies inside the
\* border of the block element, below the header
contentRect(b) ==
    LET inset == [x |-> 2, y |-> 32] IN
    [left |-> CanvasRect.left + codeBlocks[b].x - canvasScroll.x + inset.x,
     top  |-> CanvasRect.top + codeBlocks[b].y - canvasScroll.y + inset.y]

\* faulty variant: the scroll position of the content pane is left out
getOffsetsInViewport(b, clientX, clientY) ==
    [x |-> clientX - contentRect(b).left, y |-> clientY - contentRect(b).top]

\* getOffsetsFromClick(lineContentEl, clientX, clientY) for a line of block b
getOffsetsFromClick(b, clientX, clientY) ==
    [x |-> (clientX - contentRect(b).left) + codeBlocks[b].scrollLeft,
     y |-> (clientY - contentRect(b).top) + codeBlocks[b].scrollTop]

\* getAnchorPoint(blockName, xOffset, yOffset)
getAnchorPoint(blockName, xOffset, yOffset) ==
    IF blockName \notin DOMAIN codeBlocks
    THEN Undefined
    ELSE LET originXInCanvas == contentRect(blockName).left - CanvasRect.left
                                   + canvasScroll.x - codeBlocks[blockName].scrollLeft
             originYInCanvas == contentRect(blockName).top - CanvasRect.top
                                   + canvasScroll.y - codeBlocks[blockName].scrollTop
         IN  [x |-> originXInCanvas + (IF xOffset = Absent THEN 0 ELSE xOffset),
              y |-> originYInCanvas + (IF yOffset = Absent THEN 0 ELSE yOffset)]

\* canvas click on a code line of block b, at the point d of the visible part
\* of its content pane
ViewportClick(b, d) ==
    LET clientX == contentRect(b).left + d.x
        clientY == contentRect(b).top + d.y
    IN  LineClick(b, getOffsetsFromClick(b, clientX, clientY))

\* ---------------------------------------------------------------------- host
\* onDidReceiveMessage 'save': saveCodeMap(message.data)
HostSave ==
    /\ saveQueue # <<>>
    /\ disk' = Head(saveQueue)
    /\ saveQueue' = Tail(saveQueue)
    /\ lastOp' = "hostSave"
    /\ UNCHANGED <<phase, redrawVars, canvasScroll, codeMapData, arrows, codeBlocks, history, historyIndex, discarded,
                   isApplyingHistory, modeVars, selectedBlockName, dragVars,
                   dragTarget, resizeStart, pendingAutoSizeBlock, rafQueue, fetching, asked, shown, updateMsg>>

\* the editor selections the command can be run on
Selections == {[path |-> "a.py", start_line |-> 10, end_line |-> 20]}

\* faulty variant: the search for a free id starts at the largest id itself
allocateIdFromMax(cm) ==
    LET nums == {parseInt(k) : k \in {j \in DOMAIN cm : numericOnly(j)}}
        maxNum == IF nums = {} THEN 0 ELSE Max(0, SetMax(nums))
    IN  NextFree(cm, maxNum)

\* the id allocation of codemapfree.addToMap
allocateId(cm) ==
    LET nums == {parseInt(k) : k \in {j \in DOMAIN cm : numericOnly(j)}}
        maxNum == IF nums = {} THEN 0 ELSE Max(0, SetMax(nums))
    IN  NextFree(cm, maxNum + 1)

\* codemapfree.addToMap: load the file, add the block, save the file, and
\* post 'update' with the new block's name
addToMapCommand ==
    /\ Ready
    /\ updateMsg = NoUpdate
    /\ Cardinality(DOMAIN disk.codeMap) < MaxBlocks
    /\ \E sel \in Selections :
          LET blockName == allocateId(disk.codeMap)
              n == Cardinality(DOMAIN disk.codeMap)
              newBlock == [name |-> blockName, path |-> sel.path,
                           start_line |-> sel.start_line, end_line |-> sel.end_line,
                           x |-> n * 50 + 50, y |-> n * 50 + 50,
                           w |-> DEFAULT_W, h |-> DEFAULT_H]
              data == [disk EXCEPT !.codeMap = With(@, blockName, newBlock)]
          IN  /\ disk' = data
              /\ updateMsg' = [data |-> data, newBlockName |-> blockName]
              /\ lastOp' = "addToMap"
    /\ UNCHANGED <<phase, redrawVars, canvasScroll, codeMapData, arrows, codeBlocks, history, historyIndex, discarded,
                   isApplyingHistory, modeVars, selectedBlockName, dragVars,
                   dragTarget, resizeStart, pendingAutoSizeBlock, rafQueue, fetching, asked, shown, saveQueue>>

\* window 'message' handler, command 'update'
Update ==
    /\ Ready /\ CanRecord
    /\ updateMsg # NoUpdate
    /\ LET data == updateMsg.data
           cm == Normalised(data.codeMap)
       IN  /\ loadCodeBlocks(data.codeMap)
           /\ selectedBlockName' = SelectionAfterLoad(data.codeMap, selectedBlockName)
           /\ codeMapData' = [page_name |-> data.page_name, codeMap |-> cm]
           /\ arrows' = data.arrows
           /\ pendingAutoSizeBlock' =
                 IF updateMsg.newBlockName \in Created(data.codeMap)
                 THEN updateMsg.newBlockName ELSE pendingAutoSizeBlock
           /\ recordSnapshot(Doc(data.page_name, deepCloneMap(cm), data.arrows))
    /\ updateMsg' = NoUpdate
    /\ lastOp' = "update"
    /\ UNCHANGED <<phase, redrawVars, canvasScroll, isApplyingHistory, modeVars, dragVars, saveQueue, disk>>

\* what calculateOptimalBlockSize and the centring can produce
AutoPlacements == {[x |-> 0, y |-> 0, w |-> MIN_W, h |-> MIN_H]}

\* what getCodeContent returns: the text of the lines, or the comment line
\* that reports the failure to read the file
Codes == {"code", "error"}

\* faulty variant: a response for a block that is not on the page puts an
\* element for it back
codeContentRevives(id, code, more) ==
    /\ Ready
    /\ id \in fetching
    /\ \E ex \in asked[id] :
          LET rest == IF more THEN asked[id] ELSE asked[id] \ {ex} IN
          /\ fetching' = IF rest = {} THEN fetching \ {id} ELSE fetching
          /\ asked' = IF rest = {} THEN Without(asked, id) ELSE [asked EXCEPT ![id] = rest]
          /\ shown' = IF id \in DOMAIN shown THEN [shown EXCEPT ![id] = ex] ELSE shown
    /\ lastOp' = IF id \in DOMAIN codeBlocks THEN "codeContent" ELSE "codeContentDropped"
    /\ codeBlocks' = IF id \in DOMAIN codeBlocks
                     THEN [codeBlocks EXCEPT ![id].content = code]
                     ELSE With(codeBlocks, id,
                               [x |-> 0, y |-> 0, w |-> MIN_W, h |-> MIN_H,
                                scrollLeft |-> 0, scrollTop |-> 0, content |-> code])
    /\ IF id \in DOMAIN codeBlocks /\ pendingAutoSizeBlock = id
       THEN /\ Len(rafQueue) < MaxFrames
            /\ rafQueue' = Append(rafQueue, [id |-> id, live |-> TRUE, code |-> code])
       ELSE UNCHANGED rafQueue
    /\ ScheduleIf(id \in DOMAIN codeBlocks)
    /\ UNCHANGED <<phase, canvasScroll, codeMapData, arrows, history, historyIndex, discarded,
                   isApplyingHistory, modeVars, selectedBlockName, dragVars,
                   dragTarget, resizeStart, pendingAutoSizeBlock, saveQueue, hostVars>>

\* window 'message' handler, command 'codeContent', for the response
\* {id, code} to one of the requests made under the id; more: the same
\* response is delivered again later
codeContent(id, code, more) ==
    /\ Ready
    /\ id \in fetching
    /\ \E ex \in asked[id] :
          LET rest == IF more THEN asked[id] ELSE asked[id] \ {ex} IN
          /\ fetching' = IF rest = {} THEN fetching \ {id} ELSE fetching
          /\ asked' = IF rest = {} THEN Without(asked, id) ELSE [asked EXCEPT ![id] = rest]
          /\ shown' = IF id \in DOMAIN shown THEN [shown EXCEPT ![id] = ex] ELSE shown
    /\ lastOp' = IF id \in DOMAIN codeBlocks THEN "codeContent" ELSE "codeContentDropped"
    /\ IF id \in DOMAIN codeBlocks
       THEN /\ codeBlocks' = [codeBlocks EXCEPT ![id].content = code]
            /\ IF pendingAutoSizeBlock = id
               THEN /\ Len(rafQueue) < MaxFrames
                    /\ rafQueue' = Append(rafQueue,
                                          [id |-> id, live |-> TRUE, code |-> code])
               ELSE UNCHANGED rafQueue
       ELSE UNCHANGED <<codeBlocks, rafQueue>>
    /\ ScheduleIf(id \in DOMAIN codeBlocks)
    /\ UNCHANGED <<phase, canvasScroll, codeMapData, arrows, history, historyIndex, discarded,
                   isApplyingHistory, modeVars, selectedBlockName, dragVars,
                   dragTarget, resizeStart, pendingAutoSizeBlock, saveQueue, hostVars>>

CodeContentOf(codes) ==
    \E id \in fetching, code \in codes, more \in BOOLEAN : codeContent(id, code, more)

CodeContent == CodeContentOf(Codes)

\* the requestAnimationFrame callback of the auto-size branch
AutoSizeFrame ==
    /\ Ready /\ CanSave
    /\ rafQueue # <<>>
    /\ LET f == Head(rafQueue) IN
       \E p \in AutoPlacements :
          LET view == IF f.live
                      THEN [codeBlocks EXCEPT ![f.id].x = p.x, ![f.id].y = p.y,
                                              ![f.id].w = p.w, ![f.id].h = p.h]
                      ELSE codeBlocks
              cm == SyncGeometry(codeMapData.codeMap, view)
          IN  /\ codeBlocks' = view
              /\ codeMapData' = [codeMapData EXCEPT !.codeMap = cm]
              /\ saveQueue' = Append(saveQueue,
                                 SaveMessage(codeMapData.page_name, cm, arrows))
              /\ lastOp' = "autoSize"
    /\ rafQueue' = Tail(rafQueue)
    /\ selectedArrowIndex' = -1
    /\ editingArrowEndpoint' = NoEdit
    /\ selectedBlockName' = Head(rafQueue).id
    /\ pendingAutoSizeBlock' = Absent
    /\ ScheduleIf(selectedArrowIndex # -1)
    /\ UNCHANGED <<phase, canvasScroll, arrows, history, historyIndex, discarded, isApplyingHistory,
                   arrowMode, arrowStart, currentArrowColor, currentArrowAlpha,
                   dragVars, dragTarget, resizeStart, fetching, asked, shown, hostVars>>

\* the requestAnimationFrame callback of scheduleUpdateArrows
RedrawFrame ==
    /\ Ready
    /\ redrawPending > 0
    /\ arrowsRedrawScheduled' = FALSE
    /\ redrawPending' = redrawPending - 1
    /\ lastOp' = "updateArrows"
    /\ UNCHANGED <<phase, canvasScroll, codeMapData, arrows, codeBlocks, history,
                   historyIndex, discarded, isApplyingHistory, modeVars,
                   selectedBlockName, dragVars, dragTarget, resizeStart,
                   pendingAutoSizeBlock, rafQueue, fetching, asked, shown, saveQueue, hostVars>>

\* ----------------------------------------------------------------------- spec
Next ==
    \/ Load
    \/ undo
    \/ redo
    \/ \E b \in Visible : MenuDeleteBlock(b)
    \/ Paste
    \/ Renumber
    \/ RenameCommit
    \/ ArrowClick
    \/ EndpointHandleClick
    \/ ContentClick
    \/ CanvasClick
    \/ BlockClick
    \/ ArrowToolClick
    \/ Escape
    \/ DeleteKey
    \/ ColorInput
    \/ AlphaInput
    \/ PageNameBlur
    \/ HeaderMouseDown
    \/ MouseMove
    \/ MouseUp
    \/ HostSave
    \/ addToMapCommand
    \/ Update
    \/ CodeContent
    \/ AutoSizeFrame

Spec == Init /\ [][Next]_vars

\* the history engine under the block-store mutations and the page title
NextHistory ==
    \/ Load
    \/ undo
    \/ redo
    \/ \E b \in Visible : MenuDeleteBlock(b)
    \/ Paste
    \/ Renumber
    \/ PageNameBlur
    \/ HostSave

SpecHistory == InitWith({DocPair, DocLegacy}) /\ [][NextHistory]_vars

\* blocks, arrows and the pointer/keyboard controller
NextArrows ==
    \/ Load
    \/ undo
    \/ redo
    \/ \E b \in Visible : MenuDeleteBlock(b)
    \/ Renumber
    \/ ArrowClick
    \/ EndpointHandleClick
    \/ ContentClickAt(OneOffset)
    \/ CanvasClick
    \/ BlockClick
    \/ ArrowToolClick
    \/ Escape
    \/ DeleteKey
    \/ HostSave

SpecArrows == InitWith({DocPair}) /\ [][NextArrows]_vars

\* id allocation and renumbering
NextBlocks ==
    \/ Load
    \/ \E b \in Visible : MenuDeleteBlock(b)
    \/ Paste
    \/ Renumber
    \/ BlockClick
    \/ DeleteKey
    \/ HostSave
    \/ addToMapCommand
    \/ Update

SpecBlocks == InitWith(InitDocs) /\ [][NextBlocks]_vars

\* the host's add command, content arrival and auto-size
NextAuto ==
    \/ Load
    \/ HostSave
    \/ addToMapCommand
    \/ Update
    \/ CodeContentOf({"code"})
    \/ AutoSizeFrame
    \/ HeaderMouseDown
    \/ MouseMove
    \/ MouseUp

SpecAuto == InitWith({DocEmpty, DocPair}) /\ [][NextAuto]_vars

\* adding blocks from the editor, drawing arrows, deleting blocks
NextDraw ==
    \/ Load
    \/ addToMapCommand
    \/ Update
    \/ HostSave
    \/ ArrowToolClick
    \/ ContentClick
    \/ BlockClick
    \/ Escape
    \/ \E b \in Visible : MenuDeleteBlock(b)

SpecDraw == InitWith({DocEmpty, DocTwo}) /\ [][NextDraw]_vars

\* the rename box of a block title
NextRename ==
    \/ Load
    \/ undo
    \/ redo
    \/ RenameCommit
    \/ BlockClick
    \/ HostSave

SpecRename == InitWith({DocPair, DocLegacy}) /\ [][NextRename]_vars

\* source text arriving while blocks are added, deleted and restored
NextFetch ==
    \/ Load
    \/ undo
    \/ Paste
    \/ CodeContent
    \/ BlockClick
    \/ (\E b \in Visible : MenuDeleteBlock(b))
    \/ HostSave

SpecFetch == InitWith({DocEmpty, DocPair}) /\ [][NextFetch]_vars

\* source text, readable or not, arriving for blocks added from the editor
NextPlaceholder ==
    \/ Load
    \/ addToMapCommand
    \/ Update
    \/ CodeContent
    \/ AutoSizeFrame
    \/ (\E b \in Visible : MenuDeleteBlock(b))
    \/ HostSave

SpecPlaceholder == InitWith({DocEmpty, DocPair}) /\ [][NextPlaceholder]_vars

\* a block is added from the editor to an empty file, taken back, and a block
\* is pasted on the empty page, while source text is on the way
NextPending ==
    \/ Load
    \/ (disk.codeMap = EmptyMap /\ addToMapCommand)
    \/ Update
    \/ undo
    \/ (codeMapData.codeMap = EmptyMap /\ Paste)
    \/ CodeContentOf({"code"})
    \/ AutoSizeFrame
    \/ HostSave

SpecPending == InitWith({DocEmpty}) /\ [][NextPending]_vars

\* source text arriving and arrows being selected between animation frames
NextRedraw ==
    \/ Load
    \/ CodeContentOf({"code"})
    \/ ArrowClick
    \/ EndpointHandleClick
    \/ CanvasClick
    \/ BlockClick
    \/ RedrawFrame

SpecRedraw == InitWith({DocPair}) /\ [][NextRedraw]_vars

\* the browser runs a requested animation-frame callback at the next frame
SpecRedrawFair == SpecRedraw /\ WF_vars(RedrawFrame)

\* source text arriving while blocks exchange ids and changes are undone
NextContent ==
    \/ Load
    \/ Renumber
    \/ undo
    \/ redo
    \/ CodeContentOf({"code"})
    \/ HostSave

SpecContent == InitWith({DocPair}) /\ [][NextContent]_vars

\* selecting and deleting, undo and redo, and the saves they post
NextPersist ==
    \/ Load
    \/ ArrowClick
    \/ BlockClick
    \/ DeleteKey
    \/ undo
    \/ redo
    \/ HostSave

SpecPersist == InitWith({DocPlain}) /\ [][NextPersist]_vars

\* anchors placed by clicks while the canvas and the panes are scrolled and
\* the blocks are moved and resized
NextAnchor ==
    \/ Load
    \/ ArrowToolClick
    \/ (\E b \in Visible, d \in OneOffset : ViewportClick(b, d))
    \/ CanvasScroll
    \/ ContentScroll
    \/ HeaderMouseDown
    \/ ResizeMouseDown
    \/ MouseMove
    \/ MouseUp
    \/ HostSave

SpecAnchor ==
    /\ InitWith({Doc(DEFAULT_PAGE,
                     (1 :> Block(1, "a.py", 50, 50, DEFAULT_W, DEFAULT_H)), <<>>)})
    /\ [][NextAnchor]_vars

\* the store functions called with references that may designate nothing
NextRefs ==
    \/ Load
    \/ (\E id \in {1, 2, 5} : DeleteCall(id))
    \/ (\E id \in {1, 2, 5}, n \in RenameInputs \ {Absent} : RenameCall(id, n))
    \/ (\E i \in -1..2 : SelectCall(i))
    \/ EndpointHandleClick
    \/ ContentClickAt(OneOffset)
    \/ DeleteKey
    \/ HostSave

SpecRefs == InitWith({DocPair}) /\ [][NextRefs]_vars

\* the resize gesture on every handle
NextResize ==
    \/ Load
    \/ ResizeMouseDownIn({"n", "s", "e", "w", "nw", "ne", "sw", "se"})
    \/ MouseMoveBy({[dx |-> -150, dy |-> 40], [dx |-> 150, dy |-> 120],
                    [dx |-> 60, dy |-> -120], [dx |-> -60, dy |-> -60]})
    \/ MouseUp
    \/ HostSave

SpecResize ==
    /\ InitWith({Doc(DEFAULT_PAGE,
                     (1 :> Block(1, "a.py", 50, 50, DEFAULT_W, DEFAULT_H)), <<>>)})
    /\ [][NextResize]_vars

\* the renumbering entries of the block menu
NextRenumber ==
    \/ Load
    \/ Renumber
    \/ HostSave

SpecRenumber ==
    InitWith({DocPair, DocFar, DocLegacy, DocGaps, DocMixed}) /\ [][NextRenumber]_vars

\* ===================================================================== claims
\* the snapshot the cursor points at (the list is 1-based here, the cursor
\* 0-based as in the script)
AtCursor == history[historyIndex + 1]

UndoOps == {"undo", "redo"}

\* C1: undo/redo law. Every recorded mutation stores the document it produced
\* as the entry after the cursor and keeps every entry up to the cursor; every
\* effective undo makes the document equal to the entry one before the cursor,
\* every effective redo to the entry one after it. Hence N undos after N
\* recorded mutations give the initial document and N redos the final one.
C1_UndoRedoLaw ==
    [][ /\ (lastOp' = "undo" /\ canUndo) => snapshotState' = history[historyIndex]
        /\ (lastOp' = "redo" /\ canRedo) => snapshotState' = history[historyIndex + 2]
        /\ history' # history =>
              /\ history'[Len(history')] = snapshotState'
              /\ historyIndex' = Len(history') - 1
              /\ SubSeq(history', 1, historyIndex + 1) = SubSeq(history, 1, historyIndex + 1)
      ]_vars

\* two recorded mutations, undone to the first snapshot and redone to the last
C1_Witness ==
    /\ lastOp = "redo"
    /\ Len(history) = 3 /\ historyIndex = 2
    /\ history[1] # history[3] /\ history[2] # history[3]
    /\ snapshotState = history[3]

\* C6: undo and redo never push history. An effective undo or redo leaves
\* the history list as it is, moves the cursor by exactly one and posts one
\* save message carrying the restored document.
C6_UndoRedoNeverPush ==
    [][ (lastOp' \in UndoOps /\ (IF lastOp' = "undo" THEN canUndo ELSE canRedo)) =>
           /\ history' = history
           /\ historyIndex' = (IF lastOp' = "undo" THEN historyIndex - 1
                                                  ELSE historyIndex + 1)
           /\ saveQueue' = Append(saveQueue, snapshotState')
      ]_vars

\* an undo that moved the cursor back from the end of a list of three
C6_Witness ==
    /\ lastOp = "undo"
    /\ Len(history) = 3 /\ historyIndex = 1
    /\ Len(saveQueue) > 0 /\ saveQueue[Len(saveQueue)] = history[2]

\* C7: redo truncation. A step that records a snapshot leaves the new entry
\* directly after the old cursor: the entries that were after the cursor are
\* gone, the cursor is on the last entry and redo is not available.
C7_RedoTruncation ==
    [][ history' # history =>
           /\ Len(history') = historyIndex + 2
           /\ historyIndex' = Len(history') - 1
           /\ ~canRedo'
           /\ discarded' = Len(history) - (historyIndex + 1)
      ]_vars

\* a recorded mutation that dropped two redo entries
C7_Witness ==
    /\ discarded = 2
    /\ lastOp \notin UndoOps \cup {"save"}
    /\ Len(history) = 2 /\ historyIndex = 1

\* C8: no-op guard. undo at the first snapshot and redo at the last one leave
\* the document, the history list and the cursor unchanged.
C8_NoOpGuard ==
    [][ (\/ lastOp' = "undo" /\ historyIndex = 0
         \/ lastOp' = "redo" /\ historyIndex = Len(history) - 1) =>
           UNCHANGED <<codeMapData, arrows, history, historyIndex>>
      ]_vars

\* undo ran with a single snapshot in the list: it was at the first snapshot
C8_WitnessUndo == lastOp = "undo" /\ Len(history) = 1 /\ historyIndex = 0

\* C9: after the initial load the history holds exactly one snapshot, the
\* cursor is 0 and the snapshot equals the loaded document.
C9_InitialSnapshot ==
    lastOp = "load" =>
        /\ Len(history) = 1
        /\ historyIndex = 0
        /\ history[1] = snapshotState
        /\ ~canUndo /\ ~canRedo

\* the load of a file written by an earlier version, whose blocks had no name
C9_Witness ==
    /\ lastOp = "load"
    /\ DOMAIN codeMapData.codeMap # {}
    /\ \A k \in DOMAIN codeMapData.codeMap : codeMapData.codeMap[k].name = k
    /\ disk.codeMap # codeMapData.codeMap


\* C2: referential integrity of arrows. In every state each arrow's two
\* endpoints name blocks that exist in the document.
C2_ArrowsReferenceBlocks ==
    \A i \in 1..Len(arrows) :
        /\ Truthy(codeMapData.codeMap, arrows[i].from.block)
        /\ Truthy(codeMapData.codeMap, arrows[i].to.block)

DeleteBlockOps == {"deleteBlock", "deleteSelectedBlock"}

\* the positions of the arrows of ar that do not touch block b
Untouched(ar, b) == {i \in 1..Len(ar) : ar[i].from.block # b /\ ar[i].to.block # b}

\* C3: cascade integrity of block deletion. A deleteBlock(B) step removes
\* exactly the block B, leaves no arrow that starts or ends at B, and keeps
\* every arrow that does not touch B, in order.
C3_CascadeIntegrity ==
    [][ (lastOp' \in DeleteBlockOps /\ codeMapData' # codeMapData) =>
          \E b \in DOMAIN codeMapData.codeMap :
             /\ DOMAIN codeMapData'.codeMap = DOMAIN codeMapData.codeMap \ {b}
             /\ \A i \in 1..Len(arrows') :
                   arrows'[i].from.block # b /\ arrows'[i].to.block # b
             /\ Len(arrows') = Cardinality(Untouched(arrows, b))
             /\ \A i \in Untouched(arrows, b) :
                   arrows'[Cardinality({j \in Untouched(arrows, b) : j <= i})] = arrows[i]
      ]_vars

\* a deletion that removed one of two arrows and kept the other
C3_Witness ==
    /\ lastOp \in DeleteBlockOps
    /\ historyIndex >= 1
    /\ Len(history[historyIndex].arrows) = 2
    /\ Len(arrows) = 1
    /\ Cardinality(DOMAIN codeMapData.codeMap) =
          Cardinality(DOMAIN history[historyIndex].codeMap) - 1


\* the values stored in a block map
Records(cm) == {cm[k] : k \in DOMAIN cm}
Copies(cm, r) == Cardinality({k \in DOMAIN cm : cm[k] = r})
SameRecords(cm1, cm2) ==
    \A r \in Records(cm1) \cup Records(cm2) : Copies(cm1, r) = Copies(cm2, r)

\* cm2 is cm1 with exactly one more block, the blocks of cm1 untouched
OneAdded(cm1, cm2) ==
    /\ Cardinality(DOMAIN cm2) = Cardinality(DOMAIN cm1) + 1
    /\ \A k \in DOMAIN cm1 : k \in DOMAIN cm2 /\ cm2[k] = cm1[k]

RenumberOps == {"moveBlockUp", "moveBlockDown", "moveBlockToTop", "moveBlockToBottom"}

\* C4: id uniqueness without loss. A paste and a host add increase the number
\* of blocks by exactly one and leave every existing block record unchanged;
\* a renumber operation keeps the number of blocks and the multiset of block
\* records.
C4_NoBlockLost ==
    [][ /\ lastOp' = "paste" => OneAdded(codeMapData.codeMap, codeMapData'.codeMap)
        /\ lastOp' = "addToMap" => OneAdded(disk.codeMap, disk'.codeMap)
        /\ lastOp' \in RenumberOps =>
              /\ Cardinality(DOMAIN codeMapData'.codeMap) =
                    Cardinality(DOMAIN codeMapData.codeMap)
              /\ SameRecords(codeMapData.codeMap, codeMapData'.codeMap)
      ]_vars

\* the ids of cm2 that cm1 does not have
NewIds(cm1, cm2) == DOMAIN cm2 \ DOMAIN cm1

\* the smallest positive integer that is no block's id in cm
SmallestUnused(cm) ==
    CHOOSE n \in 1..(Cardinality(DOMAIN cm) + 1) :
        /\ ~Truthy(cm, String(n))
        /\ \A m \in 1..(n - 1) : Truthy(cm, String(m))

\* the largest value of a purely numeric id of cm, 0 when there is none
LargestNumeric(cm) ==
    LET nums == {parseInt(k) : k \in {j \in DOMAIN cm : Truthy(cm, j) /\ numericOnly(j)}}
    IN  IF nums = {} THEN 0 ELSE SetMax(nums)

\* C10 as stated: the id given to a pasted block and to a block added by the
\* host is the smallest positive integer that no block of the document uses.
C10_SmallestUnused ==
    [][ /\ lastOp' = "paste" =>
              NewIds(codeMapData.codeMap, codeMapData'.codeMap)
                 = {String(SmallestUnused(codeMapData.codeMap))}
        /\ lastOp' = "addToMap" =>
              NewIds(disk.codeMap, disk'.codeMap) = {String(SmallestUnused(disk.codeMap))}
      ]_vars

\* C10: the id given to a pasted block and to a block added by the host is
\* the numeral of one more than the largest purely numeric id in the whole
\* document (1 when there is none); no block of the document, whatever its
\* path, uses it.
C10_LargestPlusOne ==
    [][ /\ lastOp' = "paste" =>
              /\ NewIds(codeMapData.codeMap, codeMapData'.codeMap)
                    = {String(LargestNumeric(codeMapData.codeMap) + 1)}
              /\ OneAdded(codeMapData.codeMap, codeMapData'.codeMap)
        /\ lastOp' = "addToMap" =>
              /\ NewIds(disk.codeMap, disk'.codeMap)
                    = {String(LargestNumeric(disk.codeMap) + 1)}
              /\ OneAdded(disk.codeMap, disk'.codeMap)
      ]_vars

\* a paste into a document whose only block is 2: the new block is 3, while 1
\* is free
C10_Witness ==
    /\ lastOp = "paste"
    /\ historyIndex >= 1
    /\ DOMAIN history[historyIndex].codeMap = {2}
    /\ DOMAIN codeMapData.codeMap = {2, 3}


\* C5: outside undo/redo every change of the persisted document is followed
\* by one recorded snapshot, so that whenever no gesture is in progress the
\* document equals the snapshot at the history cursor.
C5_DocumentAtCursor ==
    (Ready /\ ~isDragging) => snapshotState = AtCursor


\* the purely numeric ids of a block map
NumericKeys(cm) == {k \in DOMAIN cm : numericOnly(k)}

\* the same arrow apart from the blocks its endpoints name
SameShape(a1, a2) ==
    /\ a1.from.x = a2.from.x /\ a1.from.y = a2.from.y
    /\ a1.to.x = a2.to.x /\ a1.to.y = a2.to.y
    /\ a1.color = a2.color /\ a1.alpha = a2.alpha

\* after moveToTop(b): b's block is at the old maximum, the i-th larger block
\* (ascending) is at Target(i), everything else is where it was
TopResult(cm1, cm2, b, Target(_, _)) ==
    LET larger == {k \in NumericKeys(cm1) : parseInt(k) > parseInt(b)}
        top    == SetMax(NumericKeys(cm1))
        rest   == DOMAIN cm1 \ (larger \cup {b})
    IN  /\ larger # {}
        /\ Get(cm2, top) = cm1[b]
        /\ \A k \in larger : Get(cm2, Target(larger \cup {b}, k)) = cm1[k]
        /\ \A k \in rest : Get(cm2, k) = cm1[k]
        /\ Cardinality(DOMAIN cm2) = Cardinality(DOMAIN cm1)

\* the id just below k among the ids S
SlotBelow(S, k) == SetMax({j \in S : j < k})
\* the ids S counted upward without gaps from the smallest of them
CountedUp(S, k) == SetMin(S) + Cardinality({j \in S : j < k}) - 1

C12_MoveToBottom ==
    [][ (lastOp' = "moveBlockToBottom" /\ codeMapData' # codeMapData) =>
           \E b \in NumericKeys(codeMapData.codeMap) :
              LET cm1 == codeMapData.codeMap
                  cm2 == codeMapData'.codeMap
                  smaller == {k \in NumericKeys(cm1) : parseInt(k) < parseInt(b)}
                  largerK == {k \in NumericKeys(cm1) : parseInt(k) > parseInt(b)}
              IN  /\ smaller # {}
                  /\ Get(cm2, SetMin(NumericKeys(cm1))) = cm1[b]
                  /\ \A k \in smaller : Get(cm2, String(parseInt(k) + 1)) = cm1[k]
                  /\ \A k \in largerK : Get(cm2, k) = cm1[k]
      ]_vars

SwapOps == {"moveBlockUp", "moveBlockDown"}
Swapped(k, a, b) == IF k = a THEN b ELSE IF k = b THEN a ELSE k

C14_ArrowsFollowBlocks ==
    [][ lastOp' \in RenumberOps =>
           /\ Len(arrows') = Len(arrows)
           /\ \A i \in 1..Len(arrows) :
                 /\ SameShape(arrows'[i], arrows[i])
                 /\ Get(codeMapData'.codeMap, arrows'[i].from.block)
                       = Get(codeMapData.codeMap, arrows[i].from.block)
                 /\ Get(codeMapData'.codeMap, arrows'[i].to.block)
                       = Get(codeMapData.codeMap, arrows[i].to.block)
      ]_vars


\* neither the document nor the history nor the messages to the host change
Untouchable ==
    /\ codeMapData' = codeMapData /\ arrows' = arrows
    /\ history' = history /\ historyIndex' = historyIndex
    /\ saveQueue' = saveQueue

\* C15: in arrow mode with a start anchor set, a click on the same block at
\* the same x and y offset adds no arrow, changes neither the document nor
\* the history, and leaves the tool in arrow mode with the same start anchor.
C15_DegenerateRejected ==
    [][ \A b \in Visible, o \in ClickOffsets :
           ( /\ arrowMode /\ editingArrowEndpoint = NoEdit
             /\ arrowStart = Anchor(b, o.x, o.y)
             /\ LineClick(b, o) )
           => ( /\ Len(arrows') = Len(arrows)
                /\ Untouchable
                /\ arrowMode'
                /\ arrowStart' = arrowStart )
      ]_vars

\* the second click repeated the start anchor (1, 5, 10) and was ignored
C15_Witness ==
    /\ lastOp = "arrowIgnored"
    /\ arrowMode
    /\ arrowStart = Anchor(1, 5, 10)
    /\ historyIndex = 0

Geometry(b) == [x |-> b.x, y |-> b.y, w |-> b.w, h |-> b.h]

IsTrimOf(t, raw) ==
    /\ \E i \in 0..Len(raw) :
          /\ i + Len(t) <= Len(raw)
          /\ \A j \in 1..Len(raw) :
                IF j > i /\ j <= i + Len(t) THEN raw[j] = t[j - i] ELSE raw[j] = " "
    /\ t # <<>> => (t[1] # " " /\ t[Len(t)] # " ")

Pieces(raw) == {SubSeq(raw, i, j) : i \in 1..(Len(raw) + 1), j \in 0..Len(raw)}

\* C17: committing a rename whose text is empty after trimming, or equal to
\* the block's current display name, changes neither document nor history;
\* any other text becomes the display name of that block only: the set of
\* ids, every other field of every block and the arrows are unchanged.
C17_Rename ==
    [][ \A b \in Visible, raw \in RenameTexts :
           RenameBox(b, raw) =>
              \E t \in Pieces(raw) :
                 /\ IsTrimOf(t, raw)
                 /\ IF t = <<>> \/ nameOf(t) = codeMapData.codeMap[b].name
                    THEN Untouchable
                    ELSE /\ codeMapData' =
                               [codeMapData EXCEPT !.codeMap[b].name = nameOf(t)]
                         /\ arrows' = arrows
                         /\ historyIndex' = historyIndex + 1
      ]_vars

\* block 1 of the two-block document renamed to "x", arrows as loaded
C17_Witness ==
    /\ lastOp = "rename"
    /\ historyIndex = 1
    /\ history[1] = DocPair
    /\ codeMapData.codeMap = [DocPair.codeMap EXCEPT ![1].name = KeyX]
    /\ arrows = DocPair.arrows


\* C19: a codeContent response whose block id is not among the blocks on
\* the page (the block was deleted, or removed by undo or by a refresh, while
\* the request was in flight) is dropped: no rendered content, no field of
\* the document, no selection and no history entry changes.
C19_StaleResponseDropped ==
    [][ \A id \in fetching, code \in Codes, more \in BOOLEAN :
           (id \notin DOMAIN codeBlocks /\ codeContent(id, code, more)) =>
              /\ codeBlocks' = codeBlocks
              /\ Untouchable
              /\ selectedBlockName' = selectedBlockName
              /\ selectedArrowIndex' = selectedArrowIndex
              /\ rafQueue' = rafQueue
              /\ pendingAutoSizeBlock' = pendingAutoSizeBlock
      ]_vars

\* a block was pasted and taken off the page again by undo; then a response
\* arrived for a block that is not on the page
C19_Witness ==
    /\ lastOp = "codeContentDropped"
    /\ Len(history) = 2 /\ historyIndex = 0
    /\ DOMAIN history[2].codeMap \ DOMAIN codeBlocks # {}
    /\ DOMAIN codeBlocks = DOMAIN history[1].codeMap

\* every block's rectangle, on the page and in the document, and every arrow
\* are as before
SameGeometry ==
    /\ arrows' = arrows
    /\ DOMAIN codeMapData'.codeMap = DOMAIN codeMapData.codeMap
    /\ \A k \in DOMAIN codeMapData.codeMap :
          Geometry(codeMapData'.codeMap[k]) = Geometry(codeMapData.codeMap[k])
    /\ DOMAIN codeBlocks' = DOMAIN codeBlocks
    /\ \A k \in DOMAIN codeBlocks : Geometry(codeBlocks'[k]) = Geometry(codeBlocks[k])

\* C20: a response that carries the failure text makes the block show that
\* text and leaves x, y, w, h of every block and every arrow as they were,
\* also when the block is the new one awaiting auto-size (whose size and
\* position are set by the animation frame that the response schedules).
C20_ErrorKeepsGeometry ==
    [][ /\ \A id \in fetching, more \in BOOLEAN :
              (id \in DOMAIN codeBlocks /\ codeContent(id, "error", more)) =>
                 (codeBlocks'[id].content = "error" /\ SameGeometry)
        /\ (lastOp' = "autoSize" /\ rafQueue # <<>> /\ Head(rafQueue).code = "error")
              => SameGeometry
      ]_vars


\* the point of the canvas content under the point p of the window
ClientToCanvas(p) ==
    [x |-> p.x - CanvasRect.left + canvasScroll.x,
     y |-> p.y - CanvasRect.top + canvasScroll.y]

GeometryOps == {"canvasScroll", "contentScroll", "mousedown", "beginResize",
                "mousemove", "mouseup"}

\* C18: for every position and size of the block, scroll position of its
\* content pane and scroll position of the canvas, the anchor stored by a
\* click at a point p of the visible content resolves to p again; and
\* scrolling, moving and resizing leave every stored anchor as it was.
C18_AnchorRoundTrip ==
    [][ /\ \A b \in Visible, d \in ClickOffsets :
              ( /\ arrowMode /\ editingArrowEndpoint = NoEdit
                /\ ViewportClick(b, d) ) =>
                 LET p == [x |-> contentRect(b).left + d.x,
                           y |-> contentRect(b).top + d.y]
                     a == IF arrowStart = NoAnchor THEN arrowStart'
                          ELSE IF Len(arrows') > Len(arrows)
                          THEN arrows'[Len(arrows')].to
                          ELSE arrowStart
                 IN  /\ a.block = b
                     /\ getAnchorPoint(a.block, a.x, a.y) = ClientToCanvas(p)
        /\ lastOp' \in GeometryOps =>
              /\ arrowStart' = arrowStart
              /\ Len(arrows') = Len(arrows)
              /\ \A i \in 1..Len(arrows) :
                    arrows'[i].from = arrows[i].from /\ arrows'[i].to = arrows[i].to
      ]_vars

\* an arrow whose start was clicked at (5, 10) of the pane while the pane was
\* scrolled by (30, 10); the canvas is scrolled and the block has been moved
C18_Witness ==
    /\ lastOp = "mouseup"
    /\ Len(arrows) = 1
    /\ arrows[1].from = Anchor(1, 35, 20)
    /\ arrows[1].to = Anchor(1, 5, 10)
    /\ canvasScroll = [x |-> 30, y |-> 10]
    /\ codeBlocks[1].x # 50
    /\ codeMapData.codeMap[1].x = codeBlocks[1].x


\* the document, the history and the file traffic
Store == <<codeMapData, arrows, history, historyIndex, saveQueue, disk>>

\* C21: a reference that designates nothing is a no-op. deleteBlock on an id
\* without a block, renameBlock on an id without a rendered block, selectArrow,
\* deleteSelectedArrow and updateArrowEndpointTo on an index outside the arrow
\* list leave the document, the history and the file untouched. Every rendered
\* block has a record in the document, so renameBlock never reads a missing one.
C21_ReferentialNoOps ==
    [][ /\ \A k \in DOMAIN codeBlocks : Truthy(codeMapData.codeMap, k)
        /\ \A id \in {1, 2, 5} :
              (~Truthy(codeMapData.codeMap, id) /\ DeleteCall(id)) =>
                  UNCHANGED <<Store, codeBlocks, selectedBlockName>>
        /\ \A id \in {1, 2, 5}, n \in RenameInputs \ {Absent} :
              (id \notin DOMAIN codeBlocks /\ RenameCall(id, n)) =>
                  UNCHANGED <<Store, codeBlocks>>
        /\ \A i \in -1..2 :
              (~InRange(i, arrows) /\ SelectCall(i)) =>
                  UNCHANGED <<Store, selectedArrowIndex, editingArrowEndpoint>>
        /\ (lastOp' = "deleteSelectedArrow" /\ ~InRange(selectedArrowIndex, arrows)) =>
              UNCHANGED <<Store, selectedArrowIndex>>
        /\ ( /\ lastOp' = "updateArrowEndpointTo"
             /\ ~InRange(editingArrowEndpoint.index, arrows) ) =>
              UNCHANGED Store
      ]_vars

\* block 1 was deleted with the selected arrow attached to it; Delete then
\* found the stale index and did nothing
C21_Witness ==
    /\ lastOp = "deleteSelectedArrow"
    /\ selectedArrowIndex = 0 /\ arrows = <<>>
    /\ DOMAIN codeMapData.codeMap = {2}
    /\ Len(history) = 2 /\ historyIndex = 1

\* C22: the id under which moveBlockToBottom stages the moved block is not the
\* id of a block of the document, whatever ids the document has.
C22_TempIdFresh ==
    [][ \A b \in Visible :
           ( /\ lastOp' = "moveBlockToBottom"
             /\ numericOnly(b)
             /\ parseInt(b) > getNumericIds(codeMapData.codeMap)[1]
             /\ moveBlockToBottom(b) ) =>
                tempIdOf(codeMapData.codeMap) \notin DOMAIN codeMapData.codeMap
      ]_vars

\* C23: no arrow of the document has the same anchor (block, x, y) at both
\* ends, in any reachable state.
C23_NoDegenerateArrow ==
    \A i \in 1..Len(arrows) : arrows[i].from # arrows[i].to

\* the gesture states of the pointer controller that are active
Gestures ==
    {g \in {"Dragging", "Resizing", "ArrowDrawing", "EndpointEditing"} :
        \/ g = "Dragging" /\ isDragging
        \/ g = "Resizing" /\ resizeStart # NoResize
        \/ g = "ArrowDrawing" /\ arrowStart # NoAnchor
        \/ g = "EndpointEditing" /\ editingArrowEndpoint # NoEdit}

\* C24: at most one of the gesture states Dragging, Resizing, ArrowDrawing (a
\* start anchor is held) and EndpointEditing is active at any time.
C24_OneGesture == Cardinality(Gestures) <= 1

\* C25: a block and an arrow are never selected at the same time.
C25_SelectionExclusive ==
    ~(selectedBlockName # Absent /\ selectedArrowIndex # -1)

\* exactly one snapshot, the document after the step, is appended at the cursor
OneSnapshot ==
    /\ historyIndex' = historyIndex + 1
    /\ Len(history') = historyIndex + 2
    /\ SubSeq(history', 1, historyIndex + 1) = SubSeq(history, 1, historyIndex + 1)
    /\ history'[historyIndex' + 1] =
          Doc(codeMapData'.page_name, deepCloneMap(codeMapData'.codeMap), arrows')

DeleteKeyOps == {"deleteSelectedArrow", "deleteSelectedBlock", "deleteKey"}

\* C26: the Delete key removes the selected arrow and no block; with no arrow
\* selected it deletes the selected block and the arrows attached to it; either
\* way one snapshot is appended; with nothing selected nothing changes.
C26_DeleteKey ==
    [][ lastOp' \in DeleteKeyOps =>
          IF InRange(selectedArrowIndex, arrows)
          THEN /\ arrows' = RemoveAt(arrows, selectedArrowIndex + 1)
               /\ codeMapData' = codeMapData
               /\ OneSnapshot
          ELSE IF selectedBlockName # Absent
          THEN /\ DOMAIN codeMapData'.codeMap =
                      (DOMAIN codeMapData.codeMap) \ {selectedBlockName}
               /\ arrows' = removeAllReferencing(arrows, selectedBlockName)
               /\ OneSnapshot
          ELSE UNCHANGED <<codeMapData, arrows, history, historyIndex>>
      ]_vars

\* C27: while a block is dragged, pointer motion moves its element (never to a
\* negative left or top) and adds no history entry; the release stores the
\* element's position in the document, appends exactly one snapshot and leaves
\* no gesture and no drag target.
C27_DragGesture ==
    [][ /\ (lastOp' = "mousemove" /\ isDragging /\ resizeStart = NoResize) =>
              /\ UNCHANGED <<history, historyIndex, codeMapData, arrows, saveQueue>>
              /\ isDragging' /\ dragTarget' = dragTarget
              /\ dragTarget.live =>
                    \E p \in DragPoints :
                       /\ codeBlocks'[dragTarget.id].x = (IF p.x < 0 THEN 0 ELSE p.x)
                       /\ codeBlocks'[dragTarget.id].y = (IF p.y < 0 THEN 0 ELSE p.y)
                       /\ \A k \in DOMAIN codeBlocks \ {dragTarget.id} :
                             codeBlocks'[k] = codeBlocks[k]
        /\ (lastOp' = "mouseup" /\ isDragging /\ resizeStart = NoResize) =>
              /\ OneSnapshot
              /\ Gestures' = {} /\ dragTarget' = NoDrag
              /\ codeBlocks' = codeBlocks
              /\ dragTarget.live =>
                    /\ codeMapData'.codeMap[dragTarget.id].x = codeBlocks[dragTarget.id].x
                    /\ codeMapData'.codeMap[dragTarget.id].y = codeBlocks[dragTarget.id].y
      ]_vars

\* block 2 was dragged beyond the left edge and released
C27_Witness ==
    /\ lastOp = "mouseup" /\ ~isDragging /\ dragTarget = NoDrag
    /\ 2 \in DOMAIN codeBlocks
    /\ codeBlocks[2].x = 0 /\ codeBlocks[2].y = 30
    /\ codeMapData.codeMap[2].x = 0 /\ codeMapData.codeMap[2].y = 30
    /\ Len(history) = 2 /\ historyIndex = 1

\* C28: whatever handle is dragged and wherever the pointer is, the resized
\* block is at least MIN_W wide and MIN_H high with a non-negative left and
\* top; at the minimum width on a west handle the right edge is where it was
\* when the gesture began, and at the minimum height on a north handle the
\* bottom edge is.
C28_ResizeGesture ==
    [][ (lastOp' = "mousemove" /\ resizeStart # NoResize /\ resizeStart.live) =>
           LET r == codeBlocks'[resizeStart.id]
               hasW == resizeStart.dir \in {"w", "nw", "sw"}
               hasN == resizeStart.dir \in {"n", "ne", "nw"}
           IN  /\ r.w >= MIN_W /\ r.h >= MIN_H
               /\ r.x >= 0 /\ r.y >= 0
               /\ (hasW /\ r.w = MIN_W) =>
                     r.x + r.w = resizeStart.left + resizeStart.width
               /\ (hasN /\ r.h = MIN_H) =>
                     r.y + r.h = resizeStart.top + resizeStart.height
               /\ UNCHANGED <<history, historyIndex, resizeStart>>
      ]_vars

\* the north-west handle of block 1 was dragged past the minimum size: the
\* block is 300 x 200 and its right and bottom edges are still at 450 and 350
C28_Witness ==
    /\ lastOp = "mousemove"
    /\ resizeStart.id = 1 /\ resizeStart.dir = "nw"
    /\ resizeStart.left = 50 /\ resizeStart.width = DEFAULT_W
    /\ codeBlocks[1].w = MIN_W /\ codeBlocks[1].h = MIN_H
    /\ codeBlocks[1].x = 150 /\ codeBlocks[1].y = 150

\* C29: the second click of an arrow appends the arrow from the start anchor
\* to the clicked anchor with exactly one snapshot, clears the start anchor and
\* leaves arrow mode on; a content click in arrow mode with no start anchor
\* held starts an arrow; arrow mode goes off only by the tool button or Escape.
C29_ConsecutiveArrows ==
    [][ /\ \A b \in Visible, o \in OneOffset :
              ( /\ arrowMode /\ editingArrowEndpoint = NoEdit
                /\ LineClick(b, o) ) =>
                  IF arrowStart = NoAnchor
                  THEN /\ arrowStart' = Anchor(b, o.x, o.y)
                       /\ arrowMode'
                       /\ UNCHANGED <<arrows, history, historyIndex>>
                  ELSE IF arrowStart = Anchor(b, o.x, o.y)
                  THEN UNCHANGED <<arrows, history, historyIndex, arrowStart, arrowMode>>
                  ELSE /\ arrows' = Append(arrows,
                                           Arrow(arrowStart, Anchor(b, o.x, o.y),
                                                 currentArrowColor, currentArrowAlpha))
                       /\ OneSnapshot
                       /\ arrowStart' = NoAnchor
                       /\ arrowMode'
                       /\ editingArrowEndpoint' = NoEdit
        /\ (arrowMode /\ ~arrowMode') => lastOp' \in {"arrowTool", "escape"}
      ]_vars

\* an arrow was completed and the next click has started another one
C29_Witness ==
    /\ lastOp = "arrowStart" /\ arrowMode
    /\ Len(arrows) = 2 /\ selectedArrowIndex = 1
    /\ arrows[2].from = Anchor(1, 5, 10) /\ arrows[2].to = Anchor(2, 5, 10)
    /\ arrowStart = Anchor(2, 5, 10)
    /\ Len(history) = 2

\* C30: while an endpoint of an arrow of the list is edited, the edited arrow
\* is the selected one; a click on a code line puts the clicked anchor at that
\* endpoint and changes nothing else of the arrow list, appends exactly one
\* snapshot and ends editing with the arrow still selected; a click on empty
\* canvas ends editing with the document, the history and the selection
\* unchanged.
C30_EndpointEditing ==
    [][ (editingArrowEndpoint # NoEdit /\ InRange(editingArrowEndpoint.index, arrows)) =>
          LET i == editingArrowEndpoint.index + 1 IN
          /\ selectedArrowIndex = editingArrowEndpoint.index
          /\ \A b \in Visible, o \in OneOffset :
                LineClick(b, o) =>
                   /\ arrows' = IF editingArrowEndpoint.endpoint = "from"
                                THEN [arrows EXCEPT ![i].from = Anchor(b, o.x, o.y)]
                                ELSE [arrows EXCEPT ![i].to = Anchor(b, o.x, o.y)]
                   /\ codeMapData' = codeMapData
                   /\ OneSnapshot
                   /\ editingArrowEndpoint' = NoEdit
                   /\ selectedArrowIndex' = selectedArrowIndex
          /\ lastOp' = "canvasClick" =>
                   /\ UNCHANGED <<codeMapData, arrows, history, historyIndex, saveQueue>>
                   /\ editingArrowEndpoint' = NoEdit
                   /\ selectedArrowIndex' = selectedArrowIndex
      ]_vars

\* the 'to' endpoint of the arrow 1 -> 2 was moved from (3, 4) to (5, 10)
C30_Witness ==
    /\ lastOp = "updateArrowEndpointTo"
    /\ Len(arrows) = 1
    /\ arrows[1] = Arrow(Anchor(1, 5, 10), Anchor(2, 5, 10), BLUE, 45)
    /\ selectedArrowIndex = 0 /\ editingArrowEndpoint = NoEdit
    /\ Len(history) = 2 /\ historyIndex = 1

\* an id that is not a sequence of decimal digits
NonNumeric(k) == k < 0 /\ k # Key01

\* C31: the four renumbering entries invoked on a non-numeric id change
\* nothing; invoked on any id they leave every block under a non-numeric id
\* with its id and record, and every arrow endpoint that names a non-numeric
\* id as it was.
C31_NumericOnly ==
    [][ lastOp' \in RenumberOps =>
          /\ \A b \in Visible :
                ( /\ NonNumeric(b)
                  /\ \/ lastOp' = "moveBlockUp" /\ moveBlockUp(b)
                     \/ lastOp' = "moveBlockDown" /\ moveBlockDown(b)
                     \/ lastOp' = "moveBlockToTop" /\ moveBlockToTop(b)
                     \/ lastOp' = "moveBlockToBottom" /\ moveBlockToBottom(b) ) =>
                   UNCHANGED <<codeMapData, arrows, codeBlocks, history, historyIndex,
                               saveQueue>>
          /\ \A k \in DOMAIN codeMapData.codeMap :
                NonNumeric(k) =>
                   /\ k \in DOMAIN codeMapData'.codeMap
                   /\ codeMapData'.codeMap[k] = codeMapData.codeMap[k]
          /\ \A k \in DOMAIN codeMapData'.codeMap :
                NonNumeric(k) => k \in DOMAIN codeMapData.codeMap
          /\ Len(arrows') = Len(arrows)
          /\ \A i \in 1..Len(arrows) :
                /\ NonNumeric(arrows[i].from.block) => arrows'[i].from = arrows[i].from
                /\ NonNumeric(arrows[i].to.block) => arrows'[i].to = arrows[i].to
                /\ NonNumeric(arrows'[i].from.block) => arrows'[i].from = arrows[i].from
                /\ NonNumeric(arrows'[i].to.block) => arrows'[i].to = arrows[i].to
      ]_vars

\* blocks x, 1, 2 with arrows x -> 1 and 2 -> x: after moveToTop("1") block x
\* and both endpoints on x are as loaded, the other endpoints follow the swap
C31_Witness ==
    /\ lastOp = "moveBlockToTop" /\ historyIndex = 1
    /\ history[1].codeMap = DocMixed.codeMap
    /\ codeMapData.codeMap[KeyX] = DocMixed.codeMap[KeyX]
    /\ codeMapData.codeMap[2] = DocMixed.codeMap[1]
    /\ codeMapData.codeMap[1] = DocMixed.codeMap[2]
    /\ arrows[1].from = Anchor(KeyX, 5, 10) /\ arrows[1].to = Anchor(2, 3, 4)
    /\ arrows[2].from = Anchor(1, 5, 10) /\ arrows[2].to = Anchor(KeyX, 3, 4)

\* the value of a numeric id, read from the id itself
ValueOf(k) == IF k = Key01 THEN 1 ELSE k

\* b holds the largest (smallest) numeric id of the document
HoldsMax(b) ==
    /\ b \in DOMAIN codeMapData.codeMap /\ ~NonNumeric(b)
    /\ \A k \in DOMAIN codeMapData.codeMap : ~NonNumeric(k) => ValueOf(k) <= ValueOf(b)

HoldsMin(b) ==
    /\ b \in DOMAIN codeMapData.codeMap /\ ~NonNumeric(b)
    /\ \A k \in DOMAIN codeMapData.codeMap : ~NonNumeric(k) => ValueOf(k) >= ValueOf(b)

\* C32: moveUp and moveToTop on the block with the largest numeric id, and
\* moveDown and moveToBottom on the block with the smallest one, leave the
\* document, the arrows and the rendering unchanged, append no snapshot and
\* send no save.
C32_ExtremesNoOp ==
    [][ \A b \in Visible :
          ( \/ /\ HoldsMax(b)
               /\ \/ lastOp' = "moveBlockUp" /\ moveBlockUp(b)
                  \/ lastOp' = "moveBlockToTop" /\ moveBlockToTop(b)
            \/ /\ HoldsMin(b)
               /\ \/ lastOp' = "moveBlockDown" /\ moveBlockDown(b)
                  \/ lastOp' = "moveBlockToBottom" /\ moveBlockToBottom(b) ) =>
             UNCHANGED <<codeMapData, arrows, codeBlocks, history, historyIndex, saveQueue>>
      ]_vars

\* moveToBottom was called on block 1 of {1, 3, 4, 7} after a moveUp had been
\* recorded: still one snapshot after the loaded one
C32_Witness ==
    /\ lastOp = "moveBlockToBottom"
    /\ DOMAIN codeMapData.codeMap = {1, 3, 4, 7}
    /\ historyIndex = 1 /\ Len(history) = 2
    /\ history[1] = DocGaps /\ history[2].codeMap # DocGaps.codeMap
    /\ codeMapData.codeMap = history[2].codeMap
    /\ saveQueue = <<>>

\* C39: moveToTop and moveToBottom leave the set of block ids in use as it
\* was, whatever the set of numeric ids (gaps included).
C39_IdSetKept ==
    [][ \A b \in Visible :
          ( \/ lastOp' = "moveBlockToTop" /\ moveBlockToTop(b)
            \/ lastOp' = "moveBlockToBottom" /\ moveBlockToBottom(b) ) =>
             DOMAIN codeMapData'.codeMap = DOMAIN codeMapData.codeMap
      ]_vars

\* C34: an auto-size frame runs for the block that is flagged as newly
\* created at that moment: it sizes and places the block, selects it, clears
\* the arrow selection and the flag and sends one save; once the flag is
\* cleared no further frame resizes or saves for that block (a second source
\* response for the block starts no second resize).
C34_AutoSizeOnce ==
    [][ AutoSizeFrame =>
          /\ pendingAutoSizeBlock = Head(rafQueue).id
          /\ selectedBlockName' = Head(rafQueue).id
          /\ selectedArrowIndex' = -1
          /\ pendingAutoSizeBlock' = Absent
          /\ Len(saveQueue') = Len(saveQueue) + 1
          /\ UNCHANGED <<history, historyIndex>>
      ]_vars

\* the block record was created by paste
IsPasted(blk) ==
    \E p \in Payloads : blk.path = p.path /\ blk.start_line = p.start_line

\* C36: an auto-size frame resizes only a block that a host refresh flagged
\* as newly created; the flag of a block that went away before its text
\* arrived never makes a frame resize a block that paste created later under
\* the same id.
C36_FlagDiesWithBlock ==
    [][ ( /\ AutoSizeFrame
          /\ Head(rafQueue).live
          /\ Head(rafQueue).id \in DOMAIN codeMapData.codeMap ) =>
             ~IsPasted(codeMapData.codeMap[Head(rafQueue).id])
      ]_vars

\* C35: the selected-arrow index is -1 or an index of the current arrow
\* list.
C35_ArrowIndexValid ==
    selectedArrowIndex = -1 \/ selectedArrowIndex \in 0..(Len(arrows) - 1)

\* C33: at most one redraw callback is pending at any time, however many
\* source responses arrive before the frame; every response shown in a block
\* leaves a redraw pending, and a pending redraw is always run.
C33_RedrawCoalesced ==
    /\ [](redrawPending <= 1 /\ (arrowsRedrawScheduled <=> redrawPending = 1))
    /\ [][lastOp' = "codeContent" => redrawPending' = 1]_vars
    /\ (redrawPending = 1 ~> redrawPending = 0)

\* a second response arrived while the redraw requested by an earlier one
\* was still pending
C33_Witness ==
    /\ lastOp = "codeContent"
    /\ codeBlocks[1].content = "code" /\ codeBlocks[2].content = "code"
    /\ selectedArrowIndex = -1 /\ selectedBlockName = Absent
    /\ redrawPending = 1 /\ arrowsRedrawScheduled

\* C37: when no source response is outstanding, every rendered block shows
\* the excerpt of its own path and line range.
C37_ContentMatchesBlock ==
    fetching = {} =>
       \A id \in (DOMAIN codeBlocks) \cap (DOMAIN codeMapData.codeMap) :
          /\ codeBlocks[id].content # "loading"
          /\ shown[id] = Excerpt(codeMapData.codeMap[id])

\* C38: the refresh that follows a host 'add new block' keeps every edit the
\* page had completed: each block of the in-memory document is still there
\* with the same record, and each arrow is still in the arrow list.
C38_AddKeepsEdits ==
    [][ Update =>
          /\ \A k \in DOMAIN codeMapData.codeMap :
                /\ k \in DOMAIN codeMapData'.codeMap
                /\ codeMapData'.codeMap[k] = codeMapData.codeMap[k]
          /\ \A i \in 1..Len(arrows) : \E j \in 1..Len(arrows') : arrows'[j] = arrows[i]
      ]_vars

\* the document a save message posted now would carry
InMemory == SaveMessage(codeMapData.page_name, codeMapData.codeMap, arrows)

\* C40: every step that changes the in-memory document posts one save
\* message carrying the resulting document, and once the page is loaded and
\* every posted save has been written the file equals the in-memory
\* document.
C40_PersistenceFollows ==
    /\ [][ (codeMapData' # codeMapData \/ arrows' # arrows) =>
              /\ Len(saveQueue') = Len(saveQueue) + 1
              /\ saveQueue'[Len(saveQueue')] =
                    SaveMessage(codeMapData'.page_name, codeMapData'.codeMap, arrows')
         ]_vars
    /\ [](Ready /\ saveQueue = <<>> => disk = InMemory)

====
